---- MODULE Spec2Model ----
(***************************************************************************)
(* A model of the glTF loader of VoxelEngine (src/src/gltf_loader.cpp):    *)
(* the bounds-checked buffer readers (ReadAccessor, ReadIndices,           *)
(* ReadAccessorUint4, ReadAccessorMat4) and the mesh assembly of           *)
(* LoadGltfMesh (selector resolution, vertex emission, normal synthesis,   *)
(* unit-cube centering), the animation catalog with its process-wide cache *)
(* (LoadGltfAnimationLibrary, SampleAnimationDuration), the helpers of the *)
(* skinning bake (CanonicalNodeName, SampleTrackVec3, SampleTrackQuat) and *)
(* the channel mapping and local transforms of LoadGltfSkinningFrames.     *)
(***************************************************************************)
EXTENDS Integers, Sequences, FiniteSets, TLC

VARIABLES
    \* ---- one call of a buffer reader -------------------------------------
    rd_fn,      \* which reader is called
    rd_acc,     \* the accessor and its buffer view as the reader sees them
    rd_buflen,  \* buffer.data.size()
    rd_out,     \* the caller's output vector (each cell names the byte offset it was read from)
    rd_pc,      \* "ready" | "returned" | "threw" | "crashed"
    rd_ret,     \* the reader's return value
    rd_reads,   \* the byte offsets (relative to buffer.data()) the call dereferenced
    \* ---- one call of LoadGltfMesh -----------------------------------------
    in_path,        \* the path argument, a sequence of characters: base '#' fragment
    in_loadable,    \* whether LoadTinyGltfModelFromFile decodes the file at the base path
    model,          \* the decoded scene: meshes (name, primitives) and nodes (name, mesh)
    out_mesh,       \* *out_mesh, the caller's GltfMesh
    error,          \* *error, the caller's message
    lg_pc,          \* where the call stands
    lg_ret,         \* its return value
    selectors,      \* SplitMeshSelectors(mesh_selector)
    sel_index,      \* the selector loop's index
    mesh_indices,   \* the meshes the current selector resolved to
    mi,             \* the mesh loop's index
    prim_i,         \* the primitive loop's index
    any_primitive_loaded,
    any_uv,
    out_pos, out_norm, out_uv, out_col, out_joints, out_weights,  \* the assembled stream
    \* ---- one call of a helper function -------------------------------------
    fn_call,    \* the helper called and its arguments
    fn_pc,      \* "ready" | "returned" | "crashed"; "saved" | "loaded" for the mesh cache
    fn_out,     \* what it returned
    \* ---- LoadGltfAnimationLibrary and its cache ----------------------------
    fs,                 \* the file system: what decoding the file at each base path gives
    g_animation_cache,  \* the process-wide std::map, a function from its keys to its entries
    al_pc,      \* per caller: "idle" | "lookup" | "decode" | "done" | "crashed"
    al_path,    \* per caller: the path argument
    al_out,     \* per caller: *out_library (the clip list)
    al_err,     \* per caller: *error
    al_ret,     \* per caller: the return value
    al_read,    \* per caller: whether the call read the file
    al_first,   \* history: per base path, the result of the first call that returned
    \* ---- one call of LoadGltfSkinningFrames --------------------------------
    sf_in,        \* the arguments and the two files as they decode
    sf_pc,        \* "idle" | "ready" | "channels" | "frames" | "done" | "crashed" | "overflowed"
    sf_ret,       \* the return value
    sf_err,       \* *error
    sf_out,       \* *out_frames
    sf_tracks,    \* tracks, per base-model node
    sf_attach,    \* history: per channel passed, the node its track went to, or -1
    sf_duration,  \* duration
    sf_ci,        \* the channel loop's index
    sf_fi,        \* the frame loop's index
    sf_t,         \* t, as the last frame left it
    sf_order,     \* the nodes in the order the last frame assigned their global
    sf_local,     \* local, as the last frame left it
    sf_global     \* global, as the last frame left it

rd_vars == <<rd_fn, rd_acc, rd_buflen, rd_out, rd_pc, rd_ret, rd_reads>>

in_vars == <<in_path, in_loadable, model>>

stream_vars == <<out_pos, out_norm, out_uv, out_col, out_joints, out_weights>>

loop_vars == <<selectors, sel_index, mesh_indices, mi, prim_i, any_primitive_loaded, any_uv>>

lg_vars == <<in_vars, out_mesh, error, lg_pc, lg_ret, loop_vars, stream_vars>>

fn_vars == <<fn_call, fn_pc, fn_out>>

al_vars == <<fs, g_animation_cache, al_pc, al_path, al_out, al_err, al_ret, al_read, al_first>>

sf_vars == <<sf_in, sf_pc, sf_ret, sf_err, sf_out, sf_tracks, sf_attach, sf_duration, sf_ci, sf_fi, sf_t, sf_order, sf_local, sf_global>>

\* what the steps of one part of the program leave alone: the variables of the others
but_rd == <<lg_vars, fn_vars, al_vars, sf_vars>>

but_lg == <<rd_vars, fn_vars, al_vars, sf_vars>>

but_fn == <<rd_vars, lg_vars, al_vars, sf_vars>>

but_al == <<rd_vars, lg_vars, fn_vars, sf_vars>>

but_sf == <<rd_vars, lg_vars, fn_vars, al_vars>>

vars == <<rd_vars, lg_vars, fn_vars, al_vars, sf_vars>>

(***************************************************************************)
(* size_t arithmetic.  The program's size_t is 64 bits wide; the model     *)
(* keeps the wrap-around and scales the width down to SizeMod values.      *)
(***************************************************************************)
SizeMod == 256

Wrap(x) == x % SizeMod

\* std::vector<T>::max_size() for a 4-byte T: PTRDIFF_MAX / 4, i.e. 2^w / 8 - 1
VecMaxSize == (SizeMod \div 8) - 1

\* sizeof of one component of the given glTF component type (0: not an unsigned integer type)
UintComponentSize(componentType) ==
    CASE componentType = "UNSIGNED_BYTE"  -> 1
      [] componentType = "UNSIGNED_SHORT" -> 2
      [] componentType = "UNSIGNED_INT"   -> 4
      [] OTHER -> 0

\* the bytes of element i of an accessor: data + stride * i, elemSize bytes
ElemBytes(base_offset, stride, i, elemSize) ==
    { Wrap(base_offset + Wrap(stride * i) + b) : b \in 0..(elemSize - 1) }

InBuffer(bytes, buflen) == \A o \in bytes : o < buflen

\* `out->clear(); return false;`
ReadFails == [pc |-> "returned", ret |-> FALSE, out |-> <<>>, reads |-> {}]

(***************************************************************************)
(* The part the four readers share, after their type checks: the stride    *)
(* default, the bounds check, resize and the copy loop.  The result is the *)
(* set of outcomes the call can have: one outcome when every access is in  *)
(* bounds, and otherwise (undefined behaviour) either a crash at the first *)
(* bad access or a return with whatever the stray accesses found.          *)
(***************************************************************************)
BoundsCheckPasses(base_offset, required_bytes, buflen) ==
    ~(Wrap(base_offset + required_bytes) > buflen)

CopyLoop(acc, buflen, compSize, comps) ==
    LET stride == IF acc.stride = 0 THEN Wrap(compSize * comps) ELSE acc.stride
        base_offset == Wrap(acc.viewOffset + acc.byteOffset)
        elemSize == compSize * comps
        required_bytes == IF acc.count = 0 THEN 0
                          ELSE Wrap(Wrap(stride * (acc.count - 1)) + elemSize)
        n == Wrap(acc.count * comps)
        Bytes(i) == ElemBytes(base_offset, stride, i, elemSize)
        Bad(i) == ~InBuffer(Bytes(i), buflen) \/ (i + 1) * comps > n
        bad == { i \in 0..(acc.count - 1) : Bad(i) }
        all == UNION { Bytes(i) : i \in 0..(acc.count - 1) }
        cells == [k \in 1..n |->
                     Wrap(base_offset + Wrap(stride * ((k - 1) \div comps))
                          + compSize * ((k - 1) % comps))]
    IN  IF ~BoundsCheckPasses(base_offset, required_bytes, buflen) THEN {ReadFails}
        ELSE IF n > VecMaxSize
        THEN {[pc |-> "threw", ret |-> FALSE, out |-> <<>>, reads |-> {}]}
        ELSE IF bad = {}
        THEN {[pc |-> "returned", ret |-> TRUE, out |-> cells, reads |-> all]}
        ELSE LET first == CHOOSE i \in bad : \A j \in bad : i <= j
             IN  { [pc |-> "crashed", ret |-> FALSE, out |-> cells,
                    reads |-> UNION { Bytes(i) : i \in 0..first }],
                   [pc |-> "returned", ret |-> TRUE, out |-> cells, reads |-> all] }

ViewAndBufferInRange(acc) ==
    /\ ~(acc.bufferView < 0 \/ acc.bufferView >= acc.numViews)
    /\ ~(acc.buffer < 0 \/ acc.buffer >= acc.numBuffers)

ReadAccessor(acc, buflen, expected_components) ==
    IF acc.componentType # "FLOAT" THEN {ReadFails}
    ELSE IF acc.type = "SCALAR" /\ expected_components # 1 THEN {ReadFails}
    ELSE IF acc.type = "VEC2" /\ expected_components # 2 THEN {ReadFails}
    ELSE IF acc.type = "VEC3" /\ expected_components # 3 THEN {ReadFails}
    ELSE IF acc.type = "VEC4" /\ expected_components # 4 THEN {ReadFails}
    ELSE IF ~ViewAndBufferInRange(acc) THEN {ReadFails}
    ELSE CopyLoop(acc, buflen, 4, expected_components)

ReadIndices(acc, buflen) ==
    IF ~ViewAndBufferInRange(acc) THEN {ReadFails}
    ELSE IF UintComponentSize(acc.componentType) = 0 THEN {ReadFails}
    ELSE CopyLoop(acc, buflen, UintComponentSize(acc.componentType), 1)

ReadAccessorUint4(acc, buflen) ==
    IF acc.type # "VEC4" THEN {ReadFails}
    ELSE IF ~ViewAndBufferInRange(acc) THEN {ReadFails}
    ELSE IF UintComponentSize(acc.componentType) = 0 THEN {ReadFails}
    ELSE CopyLoop(acc, buflen, UintComponentSize(acc.componentType), 4)

ReadAccessorMat4(acc, buflen) ==
    IF acc.componentType # "FLOAT" \/ acc.type # "MAT4" THEN {ReadFails}
    ELSE IF ~ViewAndBufferInRange(acc) THEN {ReadFails}
    ELSE CopyLoop(acc, buflen, 4, 16)

(***************************************************************************)
(* One call of a reader.  The inputs: the reader, the accessor (component  *)
(* type, type, count, the stride tinygltf's ByteStride reports, the two    *)
(* byte offsets, the view and buffer indices), the buffer length and what  *)
(* the caller's vector held before the call.                               *)
(***************************************************************************)
Readers ==
    { [name |-> "ReadAccessor", expected_components |-> c] : c \in 1..4 }
        \cup { [name |-> n, expected_components |-> 0] :
                 n \in {"ReadIndices", "ReadAccessorUint4", "ReadAccessorMat4"} }

ComponentTypes == {"FLOAT", "UNSIGNED_BYTE", "UNSIGNED_SHORT", "UNSIGNED_INT", "BYTE"}

Types == {"SCALAR", "VEC2", "VEC3", "VEC4", "MAT4"}

\* the element counts, strides and offsets tried: small ones, and ones near the wrap-around
Counts == {0, 1, 2, 3, SizeMod \div 4, (SizeMod + 2) \div 3, SizeMod - 1}

Strides == {0, 4, 12, 16, SizeMod - 1}

ViewOffsets == {0, 4, SizeMod - 4}

ByteOffsets == {0, 8}

BufLens == {0, 8, 16, 48, 100}

PriorOut == {<<>>, <<7>>}

\* the (component type, type) pairs a reader accepts
Accepts(fn, ct, ty) ==
    CASE fn.name = "ReadAccessor" ->
            /\ ct = "FLOAT"
            /\ ty = (CASE fn.expected_components = 1 -> "SCALAR"
                       [] fn.expected_components = 2 -> "VEC2"
                       [] fn.expected_components = 3 -> "VEC3"
                       [] OTHER -> "VEC4")
      [] fn.name = "ReadIndices" -> UintComponentSize(ct) # 0 /\ ty = "SCALAR"
      [] fn.name = "ReadAccessorUint4" -> UintComponentSize(ct) # 0 /\ ty = "VEC4"
      [] OTHER -> ct = "FLOAT" /\ ty = "MAT4"

MkAccessor(ct, ty, count, stride, vo, bo, bv, b) ==
    [componentType |-> ct, type |-> ty, count |-> count, stride |-> stride,
     viewOffset |-> vo, byteOffset |-> bo,
     bufferView |-> bv, numViews |-> 1, buffer |-> b, numBuffers |-> 1]

\* every type combination and index combination, on one simple layout
TypeInputs(fn) ==
    { MkAccessor(ct, ty, 2, 0, 0, 0, ix[1], ix[2]) :
        ct \in ComponentTypes, ty \in Types,
        ix \in {<<0, 0>>, <<-1, 0>>, <<1, 0>>, <<0, -1>>, <<0, 1>>} }

\* every layout, on the types the reader accepts
LayoutInputs(fn) ==
    { MkAccessor(ct, ty, count, stride, vo, bo, 0, 0) :
        ct \in {c \in ComponentTypes : \E t \in Types : Accepts(fn, c, t)},
        ty \in {t \in Types : \E c \in ComponentTypes : Accepts(fn, c, t)},
        count \in Counts, stride \in Strides, vo \in ViewOffsets, bo \in ByteOffsets }

RdInit ==
    /\ rd_fn \in Readers
    /\ rd_acc \in TypeInputs(rd_fn) \cup LayoutInputs(rd_fn)
    /\ rd_buflen \in BufLens
    /\ rd_out \in PriorOut
    /\ rd_pc = "ready"
    /\ rd_ret = FALSE
    /\ rd_reads = {}

RdIdle ==
    /\ rd_fn = [name |-> "none", expected_components |-> 0]
    /\ rd_acc = MkAccessor("FLOAT", "SCALAR", 0, 0, 0, 0, 0, 0)
    /\ rd_buflen = 0
    /\ rd_out = <<>>
    /\ rd_pc = "idle"
    /\ rd_ret = FALSE
    /\ rd_reads = {}

Returns(o) ==
    /\ rd_pc' = o.pc
    /\ rd_ret' = o.ret
    /\ rd_out' = o.out
    /\ rd_reads' = o.reads
    /\ UNCHANGED <<rd_fn, rd_acc, rd_buflen>>
    /\ UNCHANGED but_rd

CallReadAccessor ==
    /\ rd_pc = "ready"
    /\ rd_fn.name = "ReadAccessor"
    /\ \E o \in ReadAccessor(rd_acc, rd_buflen, rd_fn.expected_components) : Returns(o)

CallReadIndices ==
    /\ rd_pc = "ready"
    /\ rd_fn.name = "ReadIndices"
    /\ \E o \in ReadIndices(rd_acc, rd_buflen) : Returns(o)

CallReadAccessorUint4 ==
    /\ rd_pc = "ready"
    /\ rd_fn.name = "ReadAccessorUint4"
    /\ \E o \in ReadAccessorUint4(rd_acc, rd_buflen) : Returns(o)

CallReadAccessorMat4 ==
    /\ rd_pc = "ready"
    /\ rd_fn.name = "ReadAccessorMat4"
    /\ \E o \in ReadAccessorMat4(rd_acc, rd_buflen) : Returns(o)

(***************************************************************************)
(* LoadGltfMesh.  Strings are sequences of characters.  A coordinate is an *)
(* integer number of thousandths, so the literals of the centering step    *)
(* are exact: -0.001f is -1, 1.001f is 1001 and 0.5f is 500.               *)
(***************************************************************************)
\* path.find('#', start): the first position >= start holding '#', 0 for npos
FindHash(s, start) ==
    IF \E i \in start..Len(s) : s[i] = "#"
    THEN CHOOSE i \in start..Len(s) : s[i] = "#" /\ \A j \in start..(i - 1) : s[j] # "#"
    ELSE 0

SplitPathFragment(path) ==
    LET hash == FindHash(path, 1)
    IN  IF hash = 0
        THEN [base |-> path, fragment |-> <<>>]
        ELSE [base |-> SubSeq(path, 1, hash - 1),
              fragment |-> SubSeq(path, hash + 1, Len(path))]

RECURSIVE SplitLoop(_, _, _)
SplitLoop(fragment, start, sels) ==
    IF ~(start <= Len(fragment)) THEN sels
    ELSE LET next == FindHash(fragment, start)
             part == IF next = 0 THEN SubSeq(fragment, start, Len(fragment))
                     ELSE SubSeq(fragment, start, next - 1)
             pushed == IF part # <<>> THEN Append(sels, part) ELSE sels
         IN  IF next = 0 THEN pushed ELSE SplitLoop(fragment, next + 1, pushed)

SplitMeshSelectors(fragment) ==
    IF fragment = <<>> THEN << <<>> >>
    ELSE LET sels == SplitLoop(fragment, 1, <<>>)
         IN  IF sels = <<>> THEN << <<>> >> ELSE sels

\* a for loop that returns at its first match: the least index of S
FirstOf(S) == CHOOSE i \in S : \A j \in S : i <= j

\* a lookup that asks the nodes before the meshes
FindMeshIndexByName_NodesFirst(m, name) ==
    LET byMesh == { i \in 1..Len(m.meshes) : m.meshes[i].name = name }
        byNode == { i \in 1..Len(m.nodes) : m.nodes[i].name = name /\ m.nodes[i].mesh >= 0 }
    IN  IF name = <<>> THEN 0
        ELSE IF byNode # {} THEN m.nodes[FirstOf(byNode)].mesh
        ELSE IF byMesh # {} THEN FirstOf(byMesh) - 1
        ELSE -1

\* the mesh index (0-based), -1 when neither a mesh nor a node carries the name
FindMeshIndexByName(m, name) ==
    LET byMesh == { i \in 1..Len(m.meshes) : m.meshes[i].name = name }
        byNode == { i \in 1..Len(m.nodes) : m.nodes[i].name = name /\ m.nodes[i].mesh >= 0 }
    IN  IF name = <<>> THEN 0
        ELSE IF byMesh # {} THEN FirstOf(byMesh) - 1
        ELSE IF byNode # {} THEN m.nodes[FirstOf(byNode)].mesh
        ELSE -1

\* the meshes one selector stands for (LoadGltfMesh's mesh_indices), <<-1>> when not found
ResolveSelector(m, selector) ==
    IF selector = <<>> THEN [k \in 1..Len(m.meshes) |-> k - 1]
    ELSE << FindMeshIndexByName(m, selector) >>

\* voxel::VoxelRenderer::MeshData() with has_uv = false and an empty texture path
DefaultMesh ==
    [positions |-> <<>>, normals |-> <<>>, uvs |-> <<>>, colors |-> <<>>,
     joints |-> <<>>, weights |-> <<>>, has_uv |-> FALSE, base_color_texture_path |-> ""]

LoadError == <<"Failed to load glTF/glb">>

Fail(msg) ==
    /\ error' = msg
    /\ lg_ret' = FALSE
    /\ lg_pc' = "done"

\* lines 427-470: reset the output, split the path, decode the file
LoadBegin ==
    /\ lg_pc = "start"
    /\ out_mesh' = DefaultMesh
    /\ selectors' = SplitMeshSelectors(SplitPathFragment(in_path).fragment)
    /\ sel_index' = 0
    /\ IF ~in_loadable THEN Fail(LoadError)
       ELSE IF Len(model.meshes) = 0 THEN Fail(<<"No mesh primitives">>)
       ELSE /\ lg_pc' = "selector"
            /\ UNCHANGED <<error, lg_ret>>
    /\ UNCHANGED <<in_vars, mesh_indices, mi, prim_i, any_primitive_loaded, any_uv, stream_vars>>
    /\ UNCHANGED but_lg

\* lines 471-488: the next selector, or the end of the selector loop
BeginSelector ==
    /\ lg_pc = "selector"
    /\ IF sel_index < Len(selectors)
       THEN LET selector == selectors[sel_index + 1]
                found == ResolveSelector(model, selector)
            IN  IF selector # <<>> /\ found[1] < 0
                THEN /\ Fail(<<"Mesh not found: ">> \o selector)
                     /\ UNCHANGED <<mesh_indices, mi, any_primitive_loaded>>
                ELSE /\ mesh_indices' = found
                     /\ any_primitive_loaded' = FALSE
                     /\ mi' = 0
                     /\ lg_pc' = "mesh"
                     /\ UNCHANGED <<error, lg_ret>>
       ELSE /\ lg_pc' = "finish"
            /\ UNCHANGED <<error, lg_ret, mesh_indices, mi, any_primitive_loaded>>
    /\ UNCHANGED <<in_vars, out_mesh, selectors, sel_index, prim_i, any_uv, stream_vars>>
    /\ UNCHANGED but_lg

\* lines 489-501: the next mesh of the selector
BeginMesh ==
    /\ lg_pc = "mesh"
    /\ IF mi < Len(mesh_indices)
       THEN LET mesh_index == mesh_indices[mi + 1]
            IN  IF mesh_index < 0 \/ mesh_index >= Len(model.meshes)
                THEN mi' = mi + 1 /\ UNCHANGED <<lg_pc, prim_i>>
                ELSE IF Len(model.meshes[mesh_index + 1].primitives) = 0
                THEN mi' = mi + 1 /\ UNCHANGED <<lg_pc, prim_i>>
                ELSE prim_i' = 0 /\ lg_pc' = "primitive" /\ UNCHANGED mi
       ELSE lg_pc' = "selector_end" /\ UNCHANGED <<mi, prim_i>>
    /\ UNCHANGED <<in_vars, out_mesh, error, lg_ret, selectors, sel_index, mesh_indices,
                   any_primitive_loaded, any_uv, stream_vars>>
    /\ UNCHANGED but_lg

\* what a stray read (an index past the end of an array) can find: any float triple
\* for a position, here one inside and one outside the unit cube; an unknown for the rest
GarbagePos == { <<0, 0, 0>>, <<7000, 7000, 7000>> }

Junk(comps) == [c \in 1..comps |-> -9]

\* a normal as read from the file: the three floats as they are
FileNormal(xyz) == [xyz |-> xyz, by |-> "1"]

\* an emission that walks the source vertices in order whatever the indices say
EmitOrder_IgnoreIndices(prim) == [k \in 1..Len(prim.positions) |-> k - 1]

\* the source vertex each emitted vertex reads: the indices, or 0..n-1
EmitOrder(prim) ==
    IF prim.has_indices THEN prim.indices
    ELSE [i \in 1..Len(prim.positions) |-> i - 1]

\* the emitted vertices whose read of arr is past its end
Stray(arr, order) == { j \in 1..Len(order) : ~(order[j] < Len(arr)) }

Gather(arr, order, junk) ==
    [j \in 1..Len(order) |-> IF order[j] < Len(arr) THEN arr[order[j] + 1] ELSE junk]

UsesSkin(prim) == prim.joints # <<>> /\ prim.weights # <<>>

\* some read of push_vertex is out of bounds: undefined behaviour
HasStrayRead(prim) ==
    LET order == EmitOrder(prim)
    IN  \/ Stray(prim.positions, order) # {}
        \/ prim.normals # <<>> /\ Stray(prim.normals, order) # {}
        \/ prim.uvs # <<>> /\ Stray(prim.uvs, order) # {}
        \/ prim.colors # <<>> /\ Stray(prim.colors, order) # {}
        \/ UsesSkin(prim) /\ Stray(prim.joints, order) # {}
        \/ UsesSkin(prim) /\ Stray(prim.weights, order) # {}

\* lines 551-597: what one primitive appends to the six output arrays; g gives the
\* float triple each stray position read finds
PushVertices(prim, g) ==
    LET order == EmitOrder(prim)
    IN  [pos |-> [j \in 1..Len(order) |->
                    IF order[j] < Len(prim.positions)
                    THEN prim.positions[order[j] + 1] ELSE g[j]],
         norm |-> IF prim.normals # <<>> THEN Gather(prim.normals, order, FileNormal(Junk(3))) ELSE <<>>,
         uv |-> IF prim.uvs # <<>> THEN Gather(prim.uvs, order, Junk(2)) ELSE <<>>,
         col |-> IF prim.colors # <<>> THEN Gather(prim.colors, order, Junk(4)) ELSE <<>>,
         joints |-> IF UsesSkin(prim) THEN Gather(prim.joints, order, Junk(4))
                    ELSE [j \in 1..Len(order) |-> <<0, 0, 0, 0>>],
         weights |-> IF UsesSkin(prim) THEN Gather(prim.weights, order, Junk(4))
                     ELSE [j \in 1..Len(order) |-> <<1, 0, 0, 0>>]]

\* a loader that skips no primitive
SkipsPrimitive_Never(prim) == FALSE

\* lines 511-517: no POSITION attribute, or its accessor cannot be read
SkipsPrimitive(prim) == ~prim.has_position \/ ~prim.position_ok

CurrentMesh == model.meshes[mesh_indices[mi + 1] + 1]

CurrentPrimitive == CurrentMesh.primitives[prim_i + 1]

\* `continue` / the end of the primitive loop's body
NextPrimitive ==
    /\ prim_i' = prim_i + 1
    /\ IF prim_i + 1 < Len(CurrentMesh.primitives)
       THEN UNCHANGED <<mi, lg_pc>>
       ELSE mi' = mi + 1 /\ lg_pc' = "mesh"

\* lines 502-599: one pass of the primitive loop's body
ProcessPrimitive ==
    /\ lg_pc = "primitive"
    /\ LET prim == CurrentPrimitive
       IN  /\ out_mesh' = IF out_mesh.base_color_texture_path = "" /\ prim.tex_path # ""
                          THEN [out_mesh EXCEPT !.base_color_texture_path = prim.tex_path]
                          ELSE out_mesh
           /\ IF SkipsPrimitive(prim)
              THEN /\ NextPrimitive
                   /\ UNCHANGED <<any_primitive_loaded, any_uv, stream_vars>>
              ELSE \/ /\ HasStrayRead(prim)
                      /\ lg_pc' = "crashed"
                      /\ any_uv' = (any_uv \/ prim.uv_ok)
                      /\ UNCHANGED <<mi, prim_i, any_primitive_loaded, stream_vars>>
                   \/ \E g \in [Stray(prim.positions, EmitOrder(prim)) -> GarbagePos] :
                        LET add == PushVertices(prim, g)
                        IN  /\ out_pos' = out_pos \o add.pos
                            /\ out_norm' = out_norm \o add.norm
                            /\ out_uv' = out_uv \o add.uv
                            /\ out_col' = out_col \o add.col
                            /\ out_joints' = out_joints \o add.joints
                            /\ out_weights' = out_weights \o add.weights
                            /\ any_uv' = (any_uv \/ prim.uv_ok)
                            /\ any_primitive_loaded' = TRUE
                            /\ NextPrimitive
    /\ UNCHANGED <<in_vars, error, lg_ret, selectors, sel_index, mesh_indices>>
    /\ UNCHANGED but_lg

\* lines 601-606: the end of one selector's pass
EndSelector ==
    /\ lg_pc = "selector_end"
    /\ IF ~any_primitive_loaded
       THEN Fail(<<"Missing POSITION">>) /\ UNCHANGED sel_index
       ELSE /\ sel_index' = sel_index + 1
            /\ lg_pc' = "selector"
            /\ UNCHANGED <<error, lg_ret>>
    /\ UNCHANGED <<in_vars, out_mesh, selectors, mesh_indices, mi, prim_i,
                   any_primitive_loaded, any_uv, stream_vars>>
    /\ UNCHANGED but_lg

\* the flat normal of one triangle: the cross product of its edges, divided by its
\* length when that exceeds 1e-6 (one square thousandth)
FlatNormal(p0, p1, p2) ==
    LET ux == p1[1] - p0[1]
        uy == p1[2] - p0[2]
        uz == p1[3] - p0[3]
        vx == p2[1] - p0[1]
        vy == p2[2] - p0[2]
        vz == p2[3] - p0[3]
        nx == uy * vz - uz * vy
        ny == uz * vx - ux * vz
        nz == ux * vy - uy * vx
        Abs(x) == IF x < 0 THEN -x ELSE x
    IN  [xyz |-> <<nx, ny, nz>>,
         by |-> IF Abs(nx) + Abs(ny) + Abs(nz) > 1 THEN "len" ELSE "1"]

ComputeNormals(positions) ==
    LET count == Len(positions)
    IN  [k \in 1..count |->
           LET i == ((k - 1) \div 3) * 3
           IN  IF i + 2 < count
               THEN FlatNormal(positions[i + 1], positions[i + 2], positions[i + 3])
               ELSE FileNormal(<<0, 0, 0>>)]

\* lines 608-613
SynthesizeNormals ==
    /\ lg_pc = "finish"
    /\ out_mesh' = IF any_uv THEN [out_mesh EXCEPT !.has_uv = TRUE] ELSE out_mesh
    /\ out_norm' = IF out_norm = <<>> THEN ComputeNormals(out_pos) ELSE out_norm
    /\ lg_pc' = "center"
    /\ UNCHANGED <<in_vars, error, lg_ret, loop_vars,
                   out_pos, out_uv, out_col, out_joints, out_weights>>
    /\ UNCHANGED but_lg

\* the float literals of the centering step, in thousandths (the sentinels bound
\* every coordinate the model draws)
MinSentinel == 1000000000

MaxSentinel == -1000000000

LoBound == -1

HiBound == 1001

Half == 500

MinOf(S) == CHOOSE x \in S : \A y \in S : x <= y

MaxOf(S) == CHOOSE x \in S : \A y \in S : x >= y

Axis(positions, a) == { positions[i][a] : i \in 1..Len(positions) }

\* a bounding box test without the padding
InUnitCube_NoPadding(positions) ==
    \A a \in 1..3 :
        /\ MinOf(Axis(positions, a) \cup {MinSentinel}) >= 0
        /\ MaxOf(Axis(positions, a) \cup {MaxSentinel}) <= 1000

\* lines 616-627: the bounding box test
InUnitCube(positions) ==
    \A a \in 1..3 :
        /\ MinOf(Axis(positions, a) \cup {MinSentinel}) >= LoBound
        /\ MaxOf(Axis(positions, a) \cup {MaxSentinel}) <= HiBound

\* a shift of the x axis alone
Recenter_XOnly(positions) ==
    [i \in 1..Len(positions) |->
        [a \in 1..3 |-> IF a = 1 THEN positions[i][a] - Half ELSE positions[i][a]]]

\* lines 628-632
Recenter(positions) ==
    [i \in 1..Len(positions) |-> [a \in 1..3 |-> positions[i][a] - Half]]

\* lines 615-633
CenterPositions ==
    /\ lg_pc = "center"
    /\ out_pos' = IF InUnitCube(out_pos) THEN Recenter(out_pos) ELSE out_pos
    /\ lg_pc' = "store"
    /\ UNCHANGED <<in_vars, out_mesh, error, lg_ret, loop_vars,
                   out_norm, out_uv, out_col, out_joints, out_weights>>
    /\ UNCHANGED but_lg

\* lines 635-641
StoreMesh ==
    /\ lg_pc = "store"
    /\ out_mesh' = [out_mesh EXCEPT !.positions = out_pos, !.normals = out_norm,
                                    !.uvs = out_uv, !.colors = out_col,
                                    !.joints = out_joints, !.weights = out_weights]
    /\ lg_ret' = TRUE
    /\ lg_pc' = "done"
    /\ UNCHANGED <<in_vars, error, loop_vars, stream_vars>>
    /\ UNCHANGED but_lg


(***************************************************************************)
(* The calls of LoadGltfMesh explored: scenes, paths and what the caller's *)
(* output held before.                                                     *)
(***************************************************************************)
MaxVerts == 2

MaxIndices == 3

MaxPrims == 3

MaxNodes == 2

MaxFragLen == 3

SeqsUpTo(S, n) == UNION { [1..k -> S] : k \in 0..n }

\* a primitive whose optional arrays hold nrm, nuv, ... entries; entry k of each array
\* carries the number k, so an emitted vertex shows which source vertex it came from
MkPrim(has_position, position_ok, positions, nrm, uv_ok, nuv, ncol, njnt, nwgt, has_indices, indices, tex_path) ==
    [has_position |-> has_position, position_ok |-> position_ok, positions |-> positions,
     normals |-> [k \in 1..nrm |-> FileNormal(<<k, 0, 0>>)],
     uv_ok |-> uv_ok,
     uvs |-> [k \in 1..nuv |-> <<k, 0>>],
     colors |-> [k \in 1..ncol |-> <<k, 0, 0, 0>>],
     joints |-> [k \in 1..njnt |-> <<k, 0, 0, 0>>],
     weights |-> [k \in 1..nwgt |-> <<k, 1, 0, 0>>],
     has_indices |-> has_indices, indices |-> indices, tex_path |-> tex_path]

Origin == <<0, 0, 0>>

Corner == <<1000, 1000, 1000>>

\* vertices inside, on the padded border of, and outside the unit cube
VertexPool == { Origin, Corner, <<1001, -1, 500>>, <<1002, 0, 500>>, <<500, 500, -2>> }

\* one primitive for every way of placing its vertices: no indices, with or without
\* the optional arrays
PlacedPrims ==
    { MkPrim(TRUE, TRUE, ps, n, n > 0, n, n, n, n, FALSE, <<>>, "") :
        ps \in SeqsUpTo(VertexPool, MaxVerts), n \in {0, MaxVerts} }

\* source vertex k of an indexed primitive
Vertex(k) == <<(k - 1) * 500, (k - 1) * 500, (k - 1) * 500>>

Pred(n) == IF n > 0 THEN n - 1 ELSE 0

\* the lengths of the optional arrays (normals, uvs, colors, joints, weights) beside
\* n positions: absent, complete, or shorter than the positions
ArrayLengths(n) ==
    { <<0, 0, 0, 0, 0>>, <<n, n, n, n, n>>, <<Pred(n), 0, 0, 0, 0>>,
      <<0, 0, 0, n, 0>>, <<0, n, Pred(n), n, Pred(n)>> }

\* one primitive for every index sequence, values past the last vertex included
IndexedPrims ==
    { MkPrim(TRUE, TRUE, [k \in 1..n |-> Vertex(k)], a[1], a[2] > 0, a[2], a[3], a[4], a[5],
             ix[1], ix[2], "") :
        n \in 0..MaxVerts,
        a \in ArrayLengths(MaxVerts),
        ix \in { <<FALSE, <<>> >> }
                 \cup { <<TRUE, sq>> : sq \in SeqsUpTo(0..MaxVerts, MaxIndices) } }

DetailPrims == PlacedPrims \cup IndexedPrims

A == <<"a">>

B == <<"b">>

MkMesh(name, primitives) == [name |-> name, primitives |-> primitives]

MkModel(meshes, nodes) == [meshes |-> meshes, nodes |-> nodes]

DetailModels == { MkModel(<< MkMesh(A, <<p>>) >>, <<>>) : p \in DetailPrims }

\* a few primitives for scenes of several primitives and meshes: one without POSITION
\* (but with a texture), one whose POSITION cannot be read, one plain vertex, one
\* vertex with every optional attribute, one readable POSITION accessor of count 0
NoPosition == MkPrim(FALSE, FALSE, <<>>, 0, FALSE, 0, 0, 0, 0, FALSE, <<>>, "t.png")

BadPosition == MkPrim(TRUE, FALSE, <<>>, 0, FALSE, 0, 0, 0, 0, FALSE, <<>>, "")

Plain == MkPrim(TRUE, TRUE, <<Origin>>, 0, FALSE, 0, 0, 0, 0, FALSE, <<>>, "")

Rich == MkPrim(TRUE, TRUE, <<Corner>>, 1, TRUE, 1, 1, 1, 1, TRUE, <<0, 0>>, "u.png")

NoVertices == MkPrim(TRUE, TRUE, <<>>, 0, TRUE, 0, 0, 0, 0, FALSE, <<>>, "")

Protos == { NoPosition, BadPosition, Plain, Rich, NoVertices }

AssemblyModels ==
    { MkModel(<< MkMesh(A, p1) >>, <<>>) : p1 \in SeqsUpTo(Protos, MaxPrims) }
        \cup { MkModel(<< MkMesh(A, pp[1]), MkMesh(B, pp[2]) >>, <<>>) :
                 pp \in { qq \in SeqsUpTo(Protos, MaxPrims) \X SeqsUpTo(Protos, MaxPrims) :
                            Len(qq[1]) + Len(qq[2]) <= MaxPrims } }

AssemblyFragments ==
    { <<>>, A, B, A \o <<"#">> \o B, B \o <<"#">> \o A, A \o <<"#">> \o A,
      A \o <<"#", "c">>, <<"c">> }

\* scenes for selector resolution: mesh i holds one vertex that names it
Marker(i) == MkPrim(TRUE, TRUE, << <<2000 + i, 0, 0>> >>, 0, FALSE, 0, 0, 0, 0, FALSE, <<>>, "")

Names == { <<>>, A, B }

NodePool == { [name |-> A, mesh |-> r] : r \in {-1, 0, 1} }

SelectorModels ==
    { MkModel(ms, ns) :
        ms \in { << MkMesh(n1, <<Marker(0)>>) >> : n1 \in Names }
                 \cup { << MkMesh(nn[1], <<Marker(0)>>), MkMesh(nn[2], <<Marker(1)>>) >> :
                          nn \in Names \X {A, B} },
        ns \in SeqsUpTo(NodePool, MaxNodes) }

SelectorFragments == SeqsUpTo({"a", "b", "#"}, MaxFragLen)

\* "m", and "m#fragment"
PathTo(fragment) == <<"m", "#">> \o fragment

\* what *out_mesh and *error may hold when the call starts
UsedMesh ==
    [positions |-> <<Corner>>, normals |-> <<FileNormal(<<1, 0, 0>>)>>, uvs |-> << <<1, 0>> >>,
     colors |-> << <<1, 0, 0, 0>> >>, joints |-> << <<1, 0, 0, 0>> >>,
     weights |-> << <<1, 0, 0, 0>> >>, has_uv |-> TRUE, base_color_texture_path |-> "old.png"]

LgInputs ==
    \/ /\ model \in DetailModels
       /\ in_path = <<"m">>
       /\ in_loadable = TRUE
    \/ /\ model \in AssemblyModels
       /\ in_path \in { PathTo(f) : f \in AssemblyFragments }
       /\ in_loadable = TRUE
    \/ /\ model \in SelectorModels
       /\ in_path \in { PathTo(f) : f \in SelectorFragments }
       /\ in_loadable = TRUE
    \/ /\ model \in { MkModel(<<>>, <<>>), MkModel(<< MkMesh(A, <<Plain>>) >>, <<>>) }
       /\ in_path \in { <<"m">>, <<"#", "a">>, <<"m", "#", "a">> }
       /\ in_loadable \in BOOLEAN

LgInit ==
    /\ LgInputs
    /\ out_mesh = UsedMesh
    /\ error = <<"stale">>
    /\ lg_pc = "start"
    /\ lg_ret = FALSE
    /\ selectors = <<>>
    /\ sel_index = 0
    /\ mesh_indices = <<>>
    /\ mi = 0
    /\ prim_i = 0
    /\ any_primitive_loaded = FALSE
    /\ any_uv = FALSE
    /\ out_pos = <<>>
    /\ out_norm = <<>>
    /\ out_uv = <<>>
    /\ out_col = <<>>
    /\ out_joints = <<>>
    /\ out_weights = <<>>

LgIdle ==
    /\ in_path = <<>>
    /\ in_loadable = FALSE
    /\ model = MkModel(<<>>, <<>>)
    /\ out_mesh = DefaultMesh
    /\ error = <<>>
    /\ lg_pc = "idle"
    /\ lg_ret = FALSE
    /\ selectors = <<>>
    /\ sel_index = 0
    /\ mesh_indices = <<>>
    /\ mi = 0
    /\ prim_i = 0
    /\ any_primitive_loaded = FALSE
    /\ any_uv = FALSE
    /\ out_pos = <<>>
    /\ out_norm = <<>>
    /\ out_uv = <<>>
    /\ out_col = <<>>
    /\ out_joints = <<>>
    /\ out_weights = <<>>

(***************************************************************************)
(* SampleAnimationDuration.  A channel carries what the function follows   *)
(* from it: its sampler index, the sampler's input accessor index, that    *)
(* accessor with its view, and the buffer, here a sequence of floats (four *)
(* bytes each).  Times are integers.                                       *)
(***************************************************************************)
\* what a read that misses the floats of the buffer can find
StrayFloats == {-7, 99}

\* std::max(a, b)
StdMax(a, b) == IF a < b THEN b ELSE a

MkChannel(sampler, input, bv, b, count, stride, vo, bo, data) ==
    [sampler |-> sampler, numSamplers |-> 1, input |-> input, numAccessors |-> 1,
     acc |-> MkAccessor("FLOAT", "SCALAR", count, stride, vo, bo, bv, b), data |-> data]

\* lines 647-657: the channel's references are all in range
ChannelRefsInRange(ch) ==
    /\ ~(ch.sampler < 0 \/ ch.sampler >= ch.numSamplers)
    /\ ~(ch.input < 0 \/ ch.input >= ch.numAccessors)
    /\ ViewAndBufferInRange(ch.acc)

\* lines 659-670: the outcomes of one pass of the loop's body on a channel whose
\* references are in range, from the duration so far
LastKeyOutcomes(ch, duration) ==
    LET acc == ch.acc
        buflen == 4 * Len(ch.data)
        stride == IF acc.stride = 0 THEN 4 ELSE acc.stride
        base_offset == Wrap(acc.viewOffset + acc.byteOffset)
        required_bytes == Wrap(Wrap(stride * (acc.count - 1)) + 4)
        last == ElemBytes(base_offset, stride, acc.count - 1, 4)
        first == Wrap(base_offset + Wrap(stride * (acc.count - 1)))
    IN  IF acc.count = 0 THEN {[pc |-> "returned", duration |-> duration]}
        ELSE IF ~BoundsCheckPasses(base_offset, required_bytes, buflen)
        THEN {[pc |-> "returned", duration |-> duration]}
        ELSE IF InBuffer(last, buflen) /\ first % 4 = 0
        THEN {[pc |-> "returned", duration |-> StdMax(duration, ch.data[(first \div 4) + 1])]}
        ELSE { [pc |-> "returned", duration |-> StdMax(duration, v)] : v \in StrayFloats }
                 \cup (IF InBuffer(last, buflen) THEN {}
                       ELSE {[pc |-> "crashed", duration |-> duration]})

RECURSIVE DurationLoop(_, _, _)
DurationLoop(channels, k, outcomes) ==
    IF k > Len(channels) THEN outcomes
    ELSE DurationLoop(channels, k + 1,
            UNION { IF o.pc = "crashed" \/ ~ChannelRefsInRange(channels[k]) THEN {o}
                    ELSE LastKeyOutcomes(channels[k], o.duration) : o \in outcomes })

\* the set of outcomes of one call: the duration returned, or a crash
SampleAnimationDuration(anim) ==
    DurationLoop(anim.channels, 1, {[pc |-> "returned", duration |-> 0]})

MaxChannels == 2

\* channels with one reference out of range at a time
RefChannels ==
    { MkChannel(r[1], r[2], r[3], r[4], 2, 0, 0, 0, <<3, 7>>) :
        r \in { <<0, 0, 0, 0>>, <<-1, 0, 0, 0>>, <<1, 0, 0, 0>>, <<0, -1, 0, 0>>, <<0, 1, 0, 0>>,
                <<0, 0, -1, 0>>, <<0, 0, 1, 0>>, <<0, 0, 0, -1>>, <<0, 0, 0, 1>> } }

\* channels of every layout, small ones and ones near the wrap-around
LayoutChannels ==
    { MkChannel(0, 0, 0, 0, count, stride, vo, 0, data) :
        count \in {0, 1, 2, 3, SizeMod - 1}, stride \in {0, 4, 8}, vo \in {0, 4, SizeMod - 4},
        data \in {<<>>, <<-2>>, <<3, 7>>, <<9, 4, 6>>} }

MkAnimation(name, channels) == [name |-> name, channels |-> channels]

\* channels without surprises, to stand next to the one under study
PlainChannels ==
    { MkChannel(0, 0, 0, 0, 2, 0, 0, 0, <<3, 7>>), MkChannel(0, 0, 0, 0, 1, 0, 0, 0, <<-2>>),
      MkChannel(0, 0, 0, 0, 0, 0, 0, 0, <<>>) }

\* animations of up to MaxChannels channels, one of them of any kind
DurationInputs ==
    { [name |-> "SampleAnimationDuration", anim |-> MkAnimation(<<>>, cs)] :
        cs \in {<<>>} \cup UNION { { <<c>> \o ps, ps \o <<c>> } :
                                   c \in RefChannels \cup LayoutChannels,
                                   ps \in SeqsUpTo(PlainChannels, MaxChannels - 1) } }

FnIdle ==
    /\ fn_call = [name |-> "none"]
    /\ fn_pc = "idle"
    /\ fn_out = <<>>

CallSampleAnimationDuration ==
    /\ fn_pc = "ready"
    /\ fn_call.name = "SampleAnimationDuration"
    /\ \E o \in SampleAnimationDuration(fn_call.anim) :
          /\ fn_pc' = o.pc
          /\ fn_out' = o.duration
    /\ UNCHANGED fn_call
    /\ UNCHANGED but_fn

(***************************************************************************)
(* LoadGltfAnimationLibrary and g_animation_cache.  One call is two steps, *)
(* the cache lookup and, on a miss, the decode with the cache store; the   *)
(* file system may change at any moment.  A file is what decoding it       *)
(* gives: an error message, or a scene with its animations.                *)
(***************************************************************************)
Callers == {1, 2}

\* a key that keeps the fragment
BasePath_WholePath(path) == path

\* lines 878-882: the base path a call works with, which is also its cache key
BasePath(path) ==
    LET base == SplitPathFragment(path).base
    IN  IF base = <<>> THEN path ELSE base

AlPaths == { <<"p">>, <<"p", "#", "a">>, <<"p", "#", "b">>, <<"#", "a">>, <<"#", "b">> }

AlKeys == { BasePath(p) : p \in AlPaths }

NoFile(msg) == [ok |-> FALSE, error |-> msg, animations |-> <<>>]

Scene(animations) == [ok |-> TRUE, error |-> <<>>, animations |-> animations]

Walk == MkAnimation(<<"w">>, << MkChannel(0, 0, 0, 0, 2, 0, 0, 0, <<3, 7>>) >>)

Unnamed == MkAnimation(<<>>, <<>>)

\* what the file at a base path can be
FilesAt(k) ==
    IF Head(k) = "#" THEN { NoFile(LoadError), Scene(<<Walk>>) }
    ELSE { NoFile(LoadError), Scene(<<>>), Scene(<<Walk>>), Scene(<<Unnamed, Walk>>) }

\* what the caller's clip list holds before a call
PriorLibraries == { <<>>, << [name |-> <<"old">>, duration |-> 1] >> }

\* a clip name without the fallback
ClipName_Raw(anim) == anim.name

\* line 915
ClipName(anim) == IF anim.name = <<>> THEN <<"default">> ELSE anim.name

\* lines 913-918: the clip lists the loop over the animations can build
RECURSIVE LibraryOutcomes(_, _, _)
LibraryOutcomes(animations, k, outcomes) ==
    IF k > Len(animations) THEN outcomes
    ELSE LibraryOutcomes(animations, k + 1,
            UNION { IF o.pc = "crashed" THEN {o}
                    ELSE { [pc |-> d.pc,
                            clips |-> IF d.pc = "crashed" THEN o.clips
                                      ELSE Append(o.clips, [name |-> ClipName(animations[k]),
                                                            duration |-> d.duration])] :
                             d \in SampleAnimationDuration(animations[k]) } : o \in outcomes })

\* a lookup that finds only stored successes
CacheHit_RetryFailures(cache, key) ==
    key \in DOMAIN cache /\ cache[key].loaded /\ cache[key].error = <<>>

\* line 885: the lookup finds a stored result
CacheHit(cache, key) == key \in DOMAIN cache /\ cache[key].loaded

\* a cache that is never written
CacheStore_Drop(cache, key, entry) == cache

\* g_animation_cache[base_path] = entry
CacheStore(cache, key, entry) ==
    [k \in DOMAIN cache \cup {key} |-> IF k = key THEN entry ELSE cache[k]]

NoResult == [set |-> FALSE, ret |-> FALSE, err |-> <<>>, clips |-> <<>>, src |-> NoFile(<<>>)]

\* the history of returns: the first result per base path, with the file it came from
Remember(key, ret, err, clips, src) ==
    al_first' = IF al_first[key].set THEN al_first
                ELSE [al_first EXCEPT ![key] = [set |-> TRUE, ret |-> ret, err |-> err,
                                                clips |-> clips, src |-> src]]

AlInit ==
    /\ fs \in [AlKeys -> UNION { FilesAt(k) : k \in AlKeys }]
    /\ \A k \in AlKeys : fs[k] \in FilesAt(k)
    /\ g_animation_cache = <<>>
    /\ al_pc = [c \in Callers |-> "idle"]
    /\ al_path = [c \in Callers |-> <<>>]
    /\ al_out = [c \in Callers |-> <<>>]
    /\ al_err = [c \in Callers |-> <<>>]
    /\ al_ret = [c \in Callers |-> FALSE]
    /\ al_read = [c \in Callers |-> FALSE]
    /\ al_first = [k \in AlKeys |-> NoResult]

AlIdle ==
    /\ fs = [k \in AlKeys |-> NoFile(LoadError)]
    /\ g_animation_cache = <<>>
    /\ al_pc = [c \in Callers |-> "idle"]
    /\ al_path = [c \in Callers |-> <<>>]
    /\ al_out = [c \in Callers |-> <<>>]
    /\ al_err = [c \in Callers |-> <<>>]
    /\ al_ret = [c \in Callers |-> FALSE]
    /\ al_read = [c \in Callers |-> FALSE]
    /\ al_first = [k \in AlKeys |-> NoResult]

\* the file system changes under the program
FsChange ==
    /\ \E k \in AlKeys : \E f \in FilesAt(k) \ {fs[k]} : fs' = [fs EXCEPT ![k] = f]
    /\ UNCHANGED <<g_animation_cache, al_pc, al_path, al_out, al_err, al_ret, al_read, al_first>>
    /\ UNCHANGED but_al

\* a caller calls LoadGltfAnimationLibrary(path, out_library, error)
AlCall(c) ==
    /\ al_pc[c] \in {"idle", "done"}
    /\ \E path \in AlPaths : \E prior \in PriorLibraries :
          /\ al_path' = [al_path EXCEPT ![c] = path]
          /\ al_out' = [al_out EXCEPT ![c] = prior]
    /\ al_err' = [al_err EXCEPT ![c] = <<"stale">>]
    /\ al_ret' = [al_ret EXCEPT ![c] = FALSE]
    /\ al_read' = [al_read EXCEPT ![c] = FALSE]
    /\ al_pc' = [al_pc EXCEPT ![c] = "lookup"]
    /\ UNCHANGED <<fs, g_animation_cache, al_first>>
    /\ UNCHANGED but_al

\* lines 878-890: the lookup, and the replay of a stored result
AlLookup(c) ==
    /\ al_pc[c] = "lookup"
    /\ LET base_path == BasePath(al_path[c])
       IN  IF CacheHit(g_animation_cache, base_path)
           THEN LET entry == g_animation_cache[base_path]
                IN  /\ al_out' = [al_out EXCEPT ![c] = entry.library]
                    /\ al_err' = [al_err EXCEPT ![c] = entry.error]
                    /\ al_ret' = [al_ret EXCEPT ![c] = (entry.error = <<>>)]
                    /\ al_pc' = [al_pc EXCEPT ![c] = "done"]
                    /\ Remember(base_path, entry.error = <<>>, entry.error, entry.library,
                                NoFile(<<>>))
           ELSE /\ al_pc' = [al_pc EXCEPT ![c] = "decode"]
                /\ UNCHANGED <<al_out, al_err, al_ret, al_first>>
    /\ UNCHANGED <<fs, g_animation_cache, al_path, al_read>>
    /\ UNCHANGED but_al

\* lines 892-939: the decode of the file, the cache store and the return
AlDecode(c) ==
    /\ al_pc[c] = "decode"
    /\ LET base_path == BasePath(al_path[c])
           file == fs[base_path]
           Failed(msg) ==
               /\ al_err' = [al_err EXCEPT ![c] = msg]
               /\ g_animation_cache' =
                      CacheStore(g_animation_cache, base_path,
                                 [library |-> <<>>, error |-> msg, loaded |-> TRUE])
               /\ al_ret' = [al_ret EXCEPT ![c] = FALSE]
               /\ al_pc' = [al_pc EXCEPT ![c] = "done"]
               /\ Remember(base_path, FALSE, msg, al_out[c], file)
               /\ UNCHANGED al_out
       IN  IF ~file.ok THEN Failed(file.error)
           ELSE IF file.animations = <<>> THEN Failed(<<"No animations">>)
           ELSE \E o \in LibraryOutcomes(file.animations, 1,
                                         {[pc |-> "returned", clips |-> <<>>]}) :
                  IF o.pc = "crashed"
                  THEN /\ al_pc' = [al_pc EXCEPT ![c] = "crashed"]
                       /\ UNCHANGED <<g_animation_cache, al_out, al_err, al_ret, al_first>>
                  ELSE /\ al_out' = [al_out EXCEPT ![c] = o.clips]
                       /\ g_animation_cache' =
                              CacheStore(g_animation_cache, base_path,
                                         [library |-> o.clips, error |-> <<>>, loaded |-> TRUE])
                       /\ al_err' = [al_err EXCEPT ![c] = <<>>]
                       /\ al_ret' = [al_ret EXCEPT ![c] = TRUE]
                       /\ al_pc' = [al_pc EXCEPT ![c] = "done"]
                       /\ Remember(base_path, TRUE, <<>>, o.clips, file)
    /\ al_read' = [al_read EXCEPT ![c] = TRUE]
    /\ UNCHANGED <<fs, al_path>>
    /\ UNCHANGED but_al

\* lines 884-936 run by two threads with no lock: caller c is about to assign to
\* g_animation_cache[base_path] while another caller is inside find or about to
\* assign as well.  The accesses to the std::map race; one of the outcomes is that
\* either thread crashes on the map.
AlRace(c) ==
    /\ al_pc[c] = "decode"
    /\ \E d \in Callers \ {c} :
          /\ al_pc[d] \in {"lookup", "decode"}
          /\ \E victim \in {c, d} : al_pc' = [al_pc EXCEPT ![victim] = "crashed"]
    /\ UNCHANGED <<fs, g_animation_cache, al_path, al_out, al_err, al_ret, al_read, al_first>>
    /\ UNCHANGED but_al

(***************************************************************************)
(* CanonicalNodeName.  A name is a sequence of characters.                 *)
(***************************************************************************)
MaxNameLen == 4

\* the characters of the names: an upper-case and a lower-case letter, the two
\* separators and a character that is neither letter nor digit
NameChars == {"A", "b", ":", "|", "_"}

\* std::tolower
ToLower(c) == IF c = "A" THEN "a" ELSE c

\* std::isalnum
IsAlnum(c) == c \in {"A", "a", "b"}

ToLowerCopy(text) == [i \in 1..Len(text) |-> ToLower(text[i])]

\* s.find_last_of(ch): the position from 0, or Len(s) + 1 for npos
FindLastOf(s, ch) ==
    LET at == { i \in 1..Len(s) : s[i] = ch }
    IN  IF at = {} THEN Len(s) + 1 ELSE MaxOf(at) - 1

\* s.substr(pos)
Substr(s, pos) == SubSeq(s, pos + 1, Len(s))

\* a canonical name without the stripping of prefixes
CanonicalNodeName_KeepPrefix(name) == SelectSeq(ToLowerCopy(name), IsAlnum)

CanonicalNodeName(name) ==
    LET s0 == ToLowerCopy(name)
        colon == FindLastOf(s0, ":")
        s1 == IF colon # Len(s0) + 1 /\ colon + 1 < Len(s0) THEN Substr(s0, colon + 1) ELSE s0
        pipe == FindLastOf(s1, "|")
        s2 == IF pipe # Len(s1) + 1 /\ pipe + 1 < Len(s1) THEN Substr(s1, pipe + 1) ELSE s1
    IN  SelectSeq(s2, IsAlnum)

NameInputs == { [name |-> "CanonicalNodeName", arg |-> n] : n \in SeqsUpTo(NameChars, MaxNameLen) }

CallCanonicalNodeName ==
    /\ fn_pc = "ready"
    /\ fn_call.name = "CanonicalNodeName"
    /\ fn_pc' = "returned"
    /\ fn_out' = CanonicalNodeName(fn_call.arg)
    /\ UNCHANGED fn_call
    /\ UNCHANGED but_fn

(***************************************************************************)
(* SampleTrackVec3 and SampleTrackQuat.  Key times and values are integers, *)
(* a sampled component is the fraction n/d that the float arithmetic       *)
(* rounds; the square root of QuatNormalize is left unevaluated.           *)
(***************************************************************************)
MaxKeys == 3

Rat(n, d) == [n |-> n, d |-> d]

\* an interpolation factor that never leaves the first key of the pair
Factor_Step(t0, t1, t) == Rat(0, 1)

\* the float that is not a number; key times are floats copied from the file as
\* they are, and every other key time of the model is 0 or above
NaN == 0 - 1

\* a <= b, a >= b and a > b on floats: false when either is not a number
FLe(a, b) == a # NaN /\ b # NaN /\ a <= b

FGe(a, b) == a # NaN /\ b # NaN /\ a >= b

FGt(a, b) == a # NaN /\ b # NaN /\ a > b

\* lines 791 and 816: a = (t1 > t0) ? ((t - t0) / (t1 - t0)) : 0.0f
Factor(t0, t1, t) == IF FGt(t1, t0) THEN Rat(t - t0, t1 - t0) ELSE Rat(0, 1)

\* v0 + (v1 - v0) * a
Lerp(v0, v1, a) == Rat(v0 * a.d + (v1 - v0) * a.n, a.d)

\* the components of key k (from 0) of a track of the given width
KeyValues(values, k, width) == [c \in 1..width |-> values[k * width + c]]

Exact(vs) == [c \in 1..Len(vs) |-> Rat(vs[c], 1)]

\* lines 786-788 and 811-813: the search for the bracketing pair, k from 0
RECURSIVE BracketLoop(_, _, _)
BracketLoop(times, t, k) ==
    IF k + 1 < Len(times) /\ ~(FGe(t, times[k + 1]) /\ FLe(t, times[k + 2]))
    THEN BracketLoop(times, t, k + 1)
    ELSE k

\* q0.x * q1.x + q0.y * q1.y + q0.z * q1.z + q0.w * q1.w
Dot4(q0, q1) == q0[1] * q1[1] + q0[2] * q1[2] + q0[3] * q1[3] + q0[4] * q1[4]

\* QuatNormalize, unevaluated
QuatNormalize(q) == [q |-> q, normalized |-> TRUE]

\* the outcomes of reading times[count] and the values behind it
StrayKey(width) ==
    {[pc |-> "crashed", value |-> <<>>]} \cup
    { [pc |-> "returned", value |-> [c \in 1..width |-> Rat(v, 1)]] : v \in StrayFloats }

SampleTrackVec3(track, t, fallback) ==
    LET count == Len(track.times)
        k == BracketLoop(track.times, t, 0)
        a == Factor(track.times[k + 1], track.times[k + 2], t)
        v0 == KeyValues(track.values, k, 3)
        v1 == KeyValues(track.values, k + 1, 3)
    IN  IF count = 0 \/ Len(track.values) < count * 3
        THEN {[pc |-> "returned", value |-> fallback]}
        ELSE IF count = 1 \/ FLe(t, track.times[1])
        THEN {[pc |-> "returned", value |-> Exact(KeyValues(track.values, 0, 3))]}
        ELSE IF FGe(t, track.times[count])
        THEN {[pc |-> "returned", value |-> Exact(KeyValues(track.values, count - 1, 3))]}
        ELSE IF k + 1 >= count THEN StrayKey(3)
        ELSE {[pc |-> "returned", value |-> [c \in 1..3 |-> Lerp(v0[c], v1[c], a)]]}

SampleTrackQuat(track, t, fallback) ==
    LET count == Len(track.times)
        k == BracketLoop(track.times, t, 0)
        a == Factor(track.times[k + 1], track.times[k + 2], t)
        q0 == KeyValues(track.values, k, 4)
        r1 == KeyValues(track.values, k + 1, 4)
        q1 == IF Dot4(q0, r1) < 0 THEN [c \in 1..4 |-> 0 - r1[c]] ELSE r1
    IN  IF count = 0 \/ Len(track.values) < count * 4
        THEN {[pc |-> "returned", value |-> fallback]}
        ELSE IF count = 1 \/ FLe(t, track.times[1])
        THEN {[pc |-> "returned", value |-> QuatNormalize(Exact(KeyValues(track.values, 0, 4)))]}
        ELSE IF FGe(t, track.times[count])
        THEN {[pc |-> "returned",
               value |-> QuatNormalize(Exact(KeyValues(track.values, count - 1, 4)))]}
        ELSE IF k + 1 >= count
        THEN { [pc |-> o.pc, value |-> IF o.pc = "crashed" THEN o.value ELSE QuatNormalize(o.value)] :
                 o \in StrayKey(4) }
        ELSE {[pc |-> "returned",
               value |-> QuatNormalize([c \in 1..4 |-> Lerp(q0[c], q1[c], a)])]}

KeyTimes == {NaN, 1, 3, 5}

SampleTimes == 0..6

\* value arrays for count keys: two full ones, and one that is an element short
TrackValues(count, width) ==
    { [i \in 1..(count * width) |-> i * i],
      [i \in 1..(count * width) |-> IF i % 2 = 0 THEN 0 - i ELSE 3 * i],
      [i \in 1..(count * width - 1) |-> i] }

Vec3Fallback == Exact(<<7, 8, 9>>)

QuatFallback == [q |-> Exact(<<0, 0, 0, 1>>), normalized |-> FALSE]

TrackInputs ==
    UNION { { [name |-> "SampleTrackVec3", track |-> [times |-> ts, values |-> vs], t |-> t,
               fallback |-> Vec3Fallback] : vs \in TrackValues(Len(ts), 3), t \in SampleTimes }
            \cup
            { [name |-> "SampleTrackQuat", track |-> [times |-> ts, values |-> vs], t |-> t,
               fallback |-> QuatFallback] : vs \in TrackValues(Len(ts), 4), t \in SampleTimes } :
            ts \in SeqsUpTo(KeyTimes, MaxKeys) }

CallSampleTrackVec3 ==
    /\ fn_pc = "ready"
    /\ fn_call.name = "SampleTrackVec3"
    /\ \E o \in SampleTrackVec3(fn_call.track, fn_call.t, fn_call.fallback) :
          /\ fn_pc' = o.pc
          /\ fn_out' = o.value
    /\ UNCHANGED fn_call
    /\ UNCHANGED but_fn

CallSampleTrackQuat ==
    /\ fn_pc = "ready"
    /\ fn_call.name = "SampleTrackQuat"
    /\ \E o \in SampleTrackQuat(fn_call.track, fn_call.t, fn_call.fallback) :
          /\ fn_pc' = o.pc
          /\ fn_out' = o.value
    /\ UNCHANGED fn_call
    /\ UNCHANGED but_fn

(***************************************************************************)
(* The mesh cache on disk (src/src/tile_catalog.cpp).  A cache file is the *)
(* sequence of the 32-bit words and floats written to it; every count      *)
(* written is far below 2^32.                                              *)
(***************************************************************************)
\* lines 189 and 224: 0x4853454D, "MESH"
MeshMagic == 1213416781

\* lines 189 and 225
MeshVersion == 1

\* GltfMesh with its MeshData, as LoadGltfMesh fills it
MkGltfMesh(positions, normals, uvs, colors, joints, weights, has_uv, tex_path) ==
    [positions |-> positions, normals |-> normals, uvs |-> uvs, colors |-> colors,
     joints |-> joints, weights |-> weights, has_uv |-> has_uv,
     base_color_texture_path |-> tex_path]

\* GltfMesh mesh; at line 515
EmptyGltfMesh == MkGltfMesh(<<>>, <<>>, <<>>, <<>>, <<>>, <<>>, FALSE, "")

NoCacheFile == [exists |-> FALSE, data |-> <<>>]

\* lines 142-145
WriteU32(out, value) == Append(out, value)

\* lines 152-158
WriteF32Vec(out, data) == WriteU32(out, Len(data)) \o data

\* lines 147-150: the stream after the read, the word read and in.good()
ReadU32(in) ==
    IF in = <<>> THEN [ok |-> FALSE, value |-> 0, rest |-> <<>>]
    ELSE [ok |-> TRUE, value |-> Head(in), rest |-> Tail(in)]

\* lines 160-168: the floats read, zeros where the file ends early
ReadF32Vec(in) ==
    LET size == ReadU32(in)
    IN  IF ~size.ok THEN [ok |-> FALSE, data |-> <<>>, rest |-> <<>>]
        ELSE [ok |-> size.value <= Len(size.rest),
              data |-> [i \in 1..size.value |->
                          IF i <= Len(size.rest) THEN size.rest[i] ELSE 0],
              rest |-> IF size.value <= Len(size.rest)
                       THEN SubSeq(size.rest, size.value + 1, Len(size.rest)) ELSE <<>>]

\* lines 208-233: the cache file after SaveMeshCache, file being what was there
SaveMeshCache(enabled, writable, file, mesh) ==
    IF ~enabled \/ ~writable THEN file
    ELSE [exists |-> TRUE,
          data |-> WriteF32Vec(WriteF32Vec(WriteF32Vec(WriteF32Vec(
                       WriteU32(WriteU32(WriteU32(<<>>, MeshMagic), MeshVersion),
                                IF mesh.has_uv THEN 1 ELSE 0),
                       mesh.positions), mesh.normals), mesh.uvs), mesh.colors)]

\* lines 170-206: the return value and *out_mesh (target) after LoadMeshCache
LoadMeshCache(enabled, file, target) ==
    LET magic == ReadU32(file.data)
        version == ReadU32(magic.rest)
        has_uv == ReadU32(version.rest)
        positions == ReadF32Vec(has_uv.rest)
        normals == ReadF32Vec(positions.rest)
        uvs == ReadF32Vec(normals.rest)
        colors == ReadF32Vec(uvs.rest)
        m1 == [target EXCEPT !.positions = positions.data]
        m2 == [m1 EXCEPT !.normals = normals.data]
        m3 == [m2 EXCEPT !.uvs = uvs.data]
        m4 == [m3 EXCEPT !.colors = colors.data]
    IN  IF ~enabled \/ ~file.exists THEN [ret |-> FALSE, mesh |-> target]
        ELSE IF ~magic.ok \/ ~version.ok THEN [ret |-> FALSE, mesh |-> target]
        ELSE IF magic.value # MeshMagic \/ version.value # MeshVersion
        THEN [ret |-> FALSE, mesh |-> target]
        ELSE IF ~has_uv.ok THEN [ret |-> FALSE, mesh |-> target]
        ELSE IF ~positions.ok THEN [ret |-> FALSE, mesh |-> m1]
        ELSE IF ~normals.ok THEN [ret |-> FALSE, mesh |-> m2]
        ELSE IF ~uvs.ok THEN [ret |-> FALSE, mesh |-> m3]
        ELSE IF ~colors.ok THEN [ret |-> FALSE, mesh |-> m4]
        ELSE [ret |-> TRUE, mesh |-> [m4 EXCEPT !.has_uv = (has_uv.value # 0)]]

\* the meshes LoadGltfMesh produces for one or more vertices: positions, normals,
\* joints and weights for every vertex, uvs and colors for every vertex or none
CachedMeshes ==
    { MkGltfMesh([i \in 1..(3 * n) |-> i], [i \in 1..(3 * n) |-> 10 + i],
                 IF uv THEN [i \in 1..(2 * n) |-> 20 + i] ELSE <<>>,
                 IF col THEN [i \in 1..(4 * n) |-> 30 + i] ELSE <<>>,
                 [i \in 1..(4 * n) |-> IF skinned THEN i % 3 ELSE 0],
                 [i \in 1..(4 * n) |-> IF i % 4 = 1 THEN 1 ELSE 0],
                 uv, tex) :
        n \in 1..MaxVerts, uv \in BOOLEAN, col \in BOOLEAN, skinned \in BOOLEAN,
        tex \in {"", "t.png"} }

\* what the cache path holds before: nothing, a file of another version, a file
\* cut short
PriorCacheFiles ==
    { NoCacheFile,
      [exists |-> TRUE, data |-> <<MeshMagic, MeshVersion + 1, 0, 0, 0, 0, 0>>],
      [exists |-> TRUE, data |-> <<MeshMagic, MeshVersion, 1, 3, 1, 2>>] }

MeshCacheInputs ==
    { [name |-> "MeshCache", enabled |-> e, writable |-> w, file |-> f, mesh |-> mesh] :
        e \in BOOLEAN, w \in BOOLEAN, f \in PriorCacheFiles, mesh \in CachedMeshes }

\* lines 528-529: SaveMeshCache for a mesh LoadGltfMesh has produced
CallSaveMeshCache ==
    /\ fn_pc = "ready"
    /\ fn_call.name = "MeshCache"
    /\ fn_out' = [file |-> SaveMeshCache(fn_call.enabled, fn_call.writable, fn_call.file,
                                         fn_call.mesh),
                  ret |-> FALSE, mesh |-> EmptyGltfMesh]
    /\ fn_pc' = "saved"
    /\ UNCHANGED fn_call
    /\ UNCHANGED but_fn

\* lines 515 and 524: LoadMeshCache into a fresh GltfMesh, on a later run
CallLoadMeshCache ==
    /\ fn_pc = "saved"
    /\ fn_call.name = "MeshCache"
    /\ LET got == LoadMeshCache(fn_call.enabled, fn_out.file, EmptyGltfMesh)
       IN  fn_out' = [fn_out EXCEPT !.ret = got.ret, !.mesh = got.mesh]
    /\ fn_pc' = "loaded"
    /\ UNCHANGED fn_call
    /\ UNCHANGED but_fn

(***************************************************************************)
(* LoadGltfSkinningFrames.  Times are whole ticks, the time of a frame a   *)
(* fraction of ticks.  A 4x4 matrix is kept as                             *)
(* the expression that builds it: an authored matrix, a composition of     *)
(* translation, rotation and scale, or a product of such.                  *)
(***************************************************************************)
MaxSfNodes == 2

MkNode(name, children, matrix, translation, rotation, scale) ==
    [name |-> name, children |-> children, matrix |-> matrix, translation |-> translation,
     rotation |-> rotation, scale |-> scale]

\* a channel with its sampler: whether its indices are in range, its target, and
\* what ReadAccessor gives for the sampler's input and output
MkSfChannel(refs_ok, target_node, target_path, in_ok, times, out_ok, values) ==
    [refs_ok |-> refs_ok, target_node |-> target_node, target_path |-> target_path,
     in_ok |-> in_ok, times |-> times, out_ok |-> out_ok, values |-> values]

NoTrack == [times |-> <<>>, values |-> <<>>]

\* NodeAnimTracks()
NoTracks == [translation |-> NoTrack, rotation |-> NoTrack, scale |-> NoTrack]

\* GltfSkinningFrames()
DefaultFrames == [joint_count |-> 0, frame_count |-> 0, duration |-> 0, palettes |-> <<>>]

\* lines 987-994: the parent of node i (from 0) is the last node that lists it
Parents(nodes) ==
    [i \in 1..Len(nodes) |->
        LET listing == { p \in 1..Len(nodes) :
                           \E c \in 1..Len(nodes[p].children) : nodes[p].children[c] = i - 1 }
        IN  IF listing = {} THEN -1 ELSE MaxOf(listing) - 1]

\* lines 996-1006: the default pose of a node
DefaultT(n) == IF Len(n.translation) = 3 THEN Exact(n.translation) ELSE Exact(<<0, 0, 0>>)

DefaultR(n) ==
    IF Len(n.rotation) = 4 THEN QuatNormalize(Exact(n.rotation))
    ELSE [q |-> Exact(<<0, 0, 0, 1>>), normalized |-> FALSE]

DefaultS(n) == IF Len(n.scale) = 3 THEN Exact(n.scale) ELSE Exact(<<1, 1, 1>>)

\* a node that never counts as matrix-authored
HasMatrix_Never(n) == FALSE

\* line 1007
HasMatrix(n) == Len(n.matrix) = 16

\* Mat4Translate(t) * (Mat4FromQuat(r) * Mat4Scale(s)), unevaluated
ComposeTRS(t, r, s) == [kind |-> "TRS", matrix |-> <<>>, t |-> t, r |-> r, s |-> s]

\* lines 1008-1010: the 16 authored floats
AuthoredMatrix(n) ==
    [kind |-> "matrix", matrix |-> n.matrix, t |-> <<>>, r |-> [q |-> <<>>, normalized |-> FALSE],
     s |-> <<>>]

\* lines 1018-1025: the animation comes from the base model's own file
SameFile(model_path, animation_path) ==
    LET model_base == BasePath(model_path)
        anim_base == BasePath(animation_path)
    IN  ~(anim_base # <<>> /\ anim_base # model_base)

\* line 1066: &anim_model == &model, for anim_model declared as a copy at line 1024
SameObject == FALSE

\* lines 1041-1043 and 1070-1072: model_node_by_name, later nodes overwrite
ModelNodeByName(nodes, n) ==
    LET named == { i \in 1..Len(nodes) : nodes[i].name # <<>> /\ nodes[i].name = n }
    IN  IF named = {} THEN -1 ELSE MaxOf(named) - 1

\* lines 1044-1046 and 1074-1079: model_node_by_canonical_name, the first node stays
ModelNodeByCanonicalName(nodes, canonical) ==
    LET named == { i \in 1..Len(nodes) :
                     /\ nodes[i].name # <<>>
                     /\ CanonicalNodeName(nodes[i].name) # <<>>
                     /\ CanonicalNodeName(nodes[i].name) = canonical }
    IN  IF named = {} THEN -1 ELSE 0 - MaxOf({ 0 - i : i \in named }) - 1

\* a mapping that looks at canonical names only
MapTarget_CanonicalOnly(nodes, anim_nodes, target_node) ==
    IF target_node >= 0 /\ target_node < Len(anim_nodes)
    THEN ModelNodeByCanonicalName(nodes, CanonicalNodeName(anim_nodes[target_node + 1].name))
    ELSE -1

\* lines 1065-1083: the base-model node of a channel, or -1
MapTarget(nodes, anim_nodes, target_node) ==
    IF SameObject THEN target_node
    ELSE IF target_node >= 0 /\ target_node < Len(anim_nodes)
    THEN LET n == anim_nodes[target_node + 1].name
             exact == ModelNodeByName(nodes, n)
         IN  IF exact < 0 THEN ModelNodeByCanonicalName(nodes, CanonicalNodeName(n)) ELSE exact
    ELSE -1

\* the channel as SampleAnimationDuration sees it
AsDurationChannel(ch) ==
    MkChannel(IF ch.refs_ok THEN 0 ELSE -1, 0, 0, 0, Len(ch.times), 0, 0, 0, ch.times)

\* the unit of the key times and of the duration: ticks, this many to a second
TicksPerSecond == 60

\* line 1122
sample_fps == 30

\* uint32_t holds the numbers below 2^32; the model's holds those below U32Mod
U32Mod == 64

\* std::ceil of num / den, den > 0
Ceil(num, den) == 0 - ((0 - num) \div den)

\* static_cast<uint32_t> of a float: the number when it fits, any value when not
CastU32(x) == IF x \in 0..(U32Mod - 1) THEN {x} ELSE 0..(U32Mod - 1)

\* lines 1123-1126: the values frame_count can get for a duration in ticks
FrameCount(duration) ==
    IF duration * 10000 > TicksPerSecond
    THEN { StdMax(2, (u + 1) % U32Mod) : u \in CastU32(Ceil(duration * sample_fps, TicksPerSecond)) }
    ELSE {1}

\* line 1137: t of frame fi, a fraction of ticks
FrameTime(duration, fi, frame_count) ==
    IF frame_count > 1 THEN Rat(duration * fi, frame_count - 1) ELSE Rat(0, 1)

\* the track with its key times in units of 1/d tick, where the time n/d is the whole n
AtTime(track, t) ==
    [times |-> [i \in 1..Len(track.times) |->
                  IF track.times[i] = NaN THEN NaN ELSE track.times[i] * t.d],
     values |-> track.values]

\* lines 1140-1148: the outcomes for the local transform of one node at time t
LocalOutcomes(n, tr, t) ==
    IF HasMatrix(n) THEN {[pc |-> "returned", local |-> AuthoredMatrix(n)]}
    ELSE { [pc |-> IF "crashed" \in {tt.pc, rr.pc, ss.pc} THEN "crashed" ELSE "returned",
            local |-> ComposeTRS(tt.value, rr.value, ss.value)] :
             tt \in SampleTrackVec3(AtTime(tr.translation, t), t.n, DefaultT(n)),
             rr \in SampleTrackQuat(AtTime(tr.rotation, t), t.n, DefaultR(n)),
             ss \in SampleTrackVec3(AtTime(tr.scale, t), t.n, DefaultS(n)) }

\* nested calls of compute_global the stack has room for
StackDepth == 6

\* a node taken for a root whatever its parent
HasParent_Never(p) == FALSE

\* line 1156: if (p >= 0)
HasParent(p) == p >= 0

\* lines 1151-1163: compute_global(ni), entered with depth calls on the stack, on
\* st = the arrays global and global_ready, the order of the assignments to global
\* and whether the stack has overflowed
RECURSIVE compute_global(_, _, _, _, _)
compute_global(parents, local, st, ni, depth) ==
    IF st.overflow THEN st
    ELSE IF depth >= StackDepth THEN [st EXCEPT !.overflow = TRUE]
    ELSE IF st.global_ready[ni + 1] THEN st
    ELSE LET p == parents[ni + 1]
             up == IF HasParent(p) THEN compute_global(parents, local, st, p, depth + 1) ELSE st
         IN  IF up.overflow THEN up
             ELSE [global |-> [up.global EXCEPT ![ni + 1] =
                                  IF HasParent(p) THEN up.global[p + 1] \o <<local[ni + 1]>>
                                  ELSE <<local[ni + 1]>>],
                   global_ready |-> [up.global_ready EXCEPT ![ni + 1] = TRUE],
                   order |-> Append(up.order, ni),
                   overflow |-> FALSE]

\* lines 1164-1165: compute_global for every node from ni on
RECURSIVE GlobalLoop(_, _, _, _)
GlobalLoop(parents, local, st, ni) ==
    IF ni >= Len(parents) \/ st.overflow THEN st
    ELSE GlobalLoop(parents, local, compute_global(parents, local, st, ni, 0), ni + 1)

\* lines 1139 and 1150: global as the frame starts, no entry assigned
NoGlobals(n) ==
    [global |-> [i \in 1..n |-> <<>>], global_ready |-> [i \in 1..n |-> FALSE],
     order |-> <<>>, overflow |-> FALSE]

\* inverse_bind[ji] with the accessor never read
InverseBind_Identity(skin, ji) == <<"identity">>

\* lines 976-985: inverse_bind[ji], the identity unless the accessor supplies it
InverseBind(skin, ji) == IF ji < skin.ibm_count THEN <<"ibm", ji>> ELSE <<"identity">>

\* lines 1167-1174: the palette entry of joint ji
JointMatrix(skin, globals, ji) ==
    LET node_index == skin.joints[ji + 1]
    IN  IF node_index >= 0 /\ node_index < Len(globals)
        THEN [global |-> globals[node_index + 1], inverse_bind |-> InverseBind(skin, ji)]
        ELSE [global |-> <<>>, inverse_bind |-> <<"identity">>]

\* the 16 zeros of a palette entry not yet written
ZeroMatrix == [global |-> <<>>, inverse_bind |-> <<"zero">>]

SfIdle ==
    /\ sf_in = [name |-> "none"]
    /\ sf_pc = "idle"
    /\ sf_ret = FALSE
    /\ sf_err = <<>>
    /\ sf_out = DefaultFrames
    /\ sf_tracks = <<>>
    /\ sf_attach = <<>>
    /\ sf_duration = 0
    /\ sf_ci = 0
    /\ sf_fi = 0
    /\ sf_t = Rat(0, 1)
    /\ sf_order = <<>>
    /\ sf_local = <<>>
    /\ sf_global = <<>>

\* *out_frames left as the caller passed it
ResetFrames_Keep(prior) == prior

\* line 948: *out_frames = {}
ResetFrames(prior) == DefaultFrames

\* the scene the animation is taken from
AnimScene == IF SameFile(sf_in.model_path, sf_in.animation_path) THEN sf_in.base ELSE sf_in.anim

SfFail(msg) ==
    /\ sf_err' = msg
    /\ sf_ret' = FALSE
    /\ sf_pc' = "done"
    /\ UNCHANGED <<sf_tracks, sf_attach, sf_duration, sf_ci>>

\* lines 942-1054: reset, the two files, skin and animation checks, the tables
SfBegin ==
    /\ sf_pc = "ready"
    /\ sf_out' = ResetFrames(sf_out)
    /\ IF ~sf_in.base.ok THEN SfFail(sf_in.base.error)
       ELSE IF sf_in.base.skins = <<>> THEN SfFail(<<"No skins in model">>)
       ELSE IF sf_in.base.skins[1].joints = <<>> THEN SfFail(<<"Skin has no joints">>)
       ELSE IF ~AnimScene.ok THEN SfFail(AnimScene.error)
       ELSE IF AnimScene.animations = <<>> THEN SfFail(<<"No animations">>)
       ELSE \E d \in SampleAnimationDuration(
                        MkAnimation(<<>>, [k \in 1..Len(AnimScene.animations[1].channels) |->
                                             AsDurationChannel(AnimScene.animations[1].channels[k])])) :
              /\ sf_pc' = IF d.pc = "crashed" THEN "crashed" ELSE "channels"
              /\ sf_duration' = d.duration
              /\ sf_tracks' = [i \in 1..Len(sf_in.base.nodes) |-> NoTracks]
              /\ sf_attach' = <<>>
              /\ sf_ci' = 0
              /\ UNCHANGED <<sf_err, sf_ret>>
    /\ UNCHANGED <<sf_in, sf_fi, sf_t, sf_order, sf_local, sf_global>>
    /\ UNCHANGED but_sf

\* lines 1056-1114: one pass of the channel loop
SfChannel ==
    /\ sf_pc = "channels"
    /\ sf_ci < Len(AnimScene.animations[1].channels)
    /\ LET ch == AnimScene.animations[1].channels[sf_ci + 1]
           model_node == MapTarget(sf_in.base.nodes, AnimScene.nodes, ch.target_node)
           mapped == ch.refs_ok /\ ~(model_node < 0 \/ model_node >= Len(sf_tracks))
           stored == mapped /\ ch.in_ok /\ ch.out_ok
                        /\ ch.target_path \in {"translation", "rotation", "scale"}
       IN  /\ sf_duration' = IF mapped /\ ch.in_ok /\ ch.times # <<>>
                             THEN StdMax(sf_duration, ch.times[Len(ch.times)])
                             ELSE sf_duration
           /\ sf_tracks' = IF stored
                           THEN [sf_tracks EXCEPT ![model_node + 1][ch.target_path] =
                                    [times |-> ch.times, values |-> ch.values]]
                           ELSE sf_tracks
           /\ sf_attach' = Append(sf_attach, IF stored THEN model_node ELSE -1)
    /\ sf_ci' = sf_ci + 1
    /\ UNCHANGED <<sf_in, sf_pc, sf_ret, sf_err, sf_out, sf_fi, sf_t, sf_order, sf_local, sf_global>>
    /\ UNCHANGED but_sf

\* lines 1124-1135: frame count, header and the zeroed palettes
SfResize ==
    /\ sf_pc = "channels"
    /\ sf_ci = Len(AnimScene.animations[1].channels)
    /\ LET joints == Len(sf_in.base.skins[1].joints)
       IN  \E frame_count \in FrameCount(sf_duration) :
              sf_out' = [joint_count |-> joints, frame_count |-> frame_count,
                         duration |-> sf_duration,
                         palettes |-> [k \in 1..(frame_count * joints) |-> ZeroMatrix]]
    /\ sf_t' = Rat(0, 1)
    /\ sf_order' = <<>>
    /\ sf_local' = <<>>
    /\ sf_global' = <<>>
    /\ sf_fi' = 0
    /\ sf_pc' = "frames"
    /\ UNCHANGED <<sf_in, sf_ret, sf_err, sf_tracks, sf_attach, sf_duration, sf_ci>>
    /\ UNCHANGED but_sf

\* lines 1136-1175: one frame: locals, globals, palette entries
SfFrame ==
    /\ sf_pc = "frames"
    /\ sf_fi < sf_out.frame_count
    /\ LET nodes == sf_in.base.nodes
           skin == sf_in.base.skins[1]
           joints == Len(skin.joints)
           parents == Parents(nodes)
           t == FrameTime(sf_duration, sf_fi, sf_out.frame_count)
       IN  \E outcome \in [1..Len(nodes) ->
                             UNION { LocalOutcomes(nodes[ni], sf_tracks[ni], t) :
                                       ni \in 1..Len(nodes) }] :
              /\ \A ni \in 1..Len(nodes) :
                    outcome[ni] \in LocalOutcomes(nodes[ni], sf_tracks[ni], t)
              /\ LET locals == [ni \in 1..Len(nodes) |-> outcome[ni].local]
                     walk == GlobalLoop(parents, locals, NoGlobals(Len(nodes)), 0)
                     globals == walk.global
                 IN  IF \E ni \in 1..Len(nodes) : outcome[ni].pc = "crashed"
                     THEN /\ sf_pc' = "crashed"
                          /\ UNCHANGED <<sf_out, sf_t, sf_order, sf_local, sf_global, sf_fi>>
                     ELSE IF walk.overflow
                     THEN /\ sf_pc' = "overflowed"
                          /\ UNCHANGED <<sf_out, sf_t, sf_order, sf_local, sf_global, sf_fi>>
                     ELSE /\ sf_t' = t
                          /\ sf_order' = walk.order
                          /\ sf_local' = locals
                          /\ sf_global' = globals
                          /\ sf_out' = [sf_out EXCEPT !.palettes =
                                 [k \in 1..Len(sf_out.palettes) |->
                                     IF (k - 1) \div joints = sf_fi
                                     THEN JointMatrix(skin, globals, (k - 1) % joints)
                                     ELSE sf_out.palettes[k]]]
                          /\ sf_fi' = sf_fi + 1
                          /\ UNCHANGED sf_pc
    /\ UNCHANGED <<sf_in, sf_ret, sf_err, sf_tracks, sf_attach, sf_duration, sf_ci>>
    /\ UNCHANGED but_sf

\* line 1177
SfReturn ==
    /\ sf_pc = "frames"
    /\ sf_fi = sf_out.frame_count
    /\ sf_ret' = TRUE
    /\ sf_pc' = "done"
    /\ UNCHANGED <<sf_in, sf_err, sf_out, sf_tracks, sf_attach, sf_duration, sf_ci, sf_fi, sf_t,
                   sf_order, sf_local, sf_global>>
    /\ UNCHANGED but_sf

\* a decoded file with what the bake reads of it
MkScene(nodes, skins, animations) ==
    [ok |-> TRUE, error |-> <<>>, nodes |-> nodes, skins |-> skins, animations |-> animations]

Undecodable == [ok |-> FALSE, error |-> LoadError, nodes |-> <<>>, skins |-> <<>>, animations |-> <<>>]

MkSkin(joints, ibm_count) == [joints |-> joints, ibm_count |-> ibm_count]

MkBake(model_path, animation_path, base, anim) ==
    [name |-> "LoadGltfSkinningFrames", model_path |-> model_path,
     animation_path |-> animation_path, base |-> base, anim |-> anim]

\* node names: none, plain ones, one made of a separator, one with a prefix
NodeNames == { <<>>, <<"A">>, <<"b">>, <<":">>, <<"b", ":", "A">> }

Bone(name) == MkNode(name, <<>>, <<>>, <<>>, <<>>, <<>>)

\* a translation channel of two keys, a frame and a half apart, on the given node
Slide(target_node) == MkSfChannel(TRUE, target_node, "translation", TRUE, <<0, 3>>, TRUE, <<1, 2, 3, 4, 5, 6>>)

\* the channel mapping: base nodes of every name, the animation in the same file
\* under its three spellings, or in a file of its own with a node of every name
MappingInputs ==
    LET Bases == { [k \in 1..Len(ns) |-> Bone(ns[k])] : ns \in SeqsUpTo(NodeNames, MaxSfNodes) \ {<<>>} }
        targets == -1..MaxSfNodes
    IN  { MkBake(<<"m">>, ap, MkScene(b, <<MkSkin(<<0>>, 0)>>, << [channels |-> <<Slide(tn)>>] >>), Undecodable) :
            ap \in { <<>>, <<"m">>, <<"m", "#", "x">> }, b \in Bases, tn \in targets }
        \cup
        { MkBake(<<"m">>, <<"a">>, MkScene(b, <<MkSkin(<<0>>, 0)>>, <<>>),
                 MkScene(<<Bone(<<"b">>), Bone(an)>>, <<>>, << [channels |-> <<Slide(tn)>>] >>)) :
            b \in Bases, an \in NodeNames, tn \in targets }

\* the tracks a component can get: none, two keys, too few values, no key
ComponentChannels(path, width) ==
    { <<>>,
      << MkSfChannel(TRUE, 0, path, TRUE, <<0, 4>>, TRUE, [i \in 1..(2 * width) |-> i * i]) >>,
      << MkSfChannel(TRUE, 0, path, TRUE, <<0, 4>>, TRUE, [i \in 1..(2 * width - 1) |-> i]) >>,
      << MkSfChannel(TRUE, 0, path, TRUE, <<>>, TRUE, <<>>) >> }

Matrix16 == [k \in 1..16 |-> k]

\* local transforms: one named node with or without matrix and default pose, and
\* every combination of tracks on its three components
LocalInputs ==
    { MkBake(<<"m">>, <<>>,
             MkScene(<< MkNode(<<"A">>, <<>>, mx, tr, ro, sc) >>, <<MkSkin(<<0>>, 1)>>,
                     << [channels |-> ct \o cr \o cs] >>),
             Undecodable) :
        mx \in { <<>>, Matrix16, <<1, 2, 3>> }, tr \in { <<>>, <<1, 2, 3>> },
        ro \in { <<>>, <<0, 2, 0, 0>> }, sc \in { <<>>, <<2, 2, 2>> },
        ct \in ComponentChannels("translation", 3), cr \in ComponentChannels("rotation", 4),
        cs \in ComponentChannels("scale", 3) }

\* hierarchies of two nodes, with and without a cycle, under skins of every shape
TreeInputs ==
    { MkBake(<<"m">>, <<>>,
             MkScene(<< MkNode(<<"A">>, c0, <<>>, <<>>, <<>>, <<>>),
                        MkNode(<<"b">>, c1, <<>>, <<1, 2, 3>>, <<>>, <<>>) >>,
                     <<MkSkin(js, ibm)>>, << [channels |-> <<Slide(1)>>] >>),
             Undecodable) :
        c0 \in { <<>>, <<1>>, <<0>> }, c1 \in { <<>>, <<0>>, <<5>> },
        js \in { <<0>>, <<1, 0>>, <<2, 1>>, <<-1>> }, ibm \in 0..2 }

\* hierarchies of three nodes: chains in either index order, a node listed by two
\* others, a cycle of three
ForkInputs ==
    { MkBake(<<"m">>, <<>>,
             MkScene(<< MkNode(<<"A">>, cs[1], <<>>, <<>>, <<>>, <<>>),
                        MkNode(<<"b">>, cs[2], <<>>, <<1, 2, 3>>, <<>>, <<>>),
                        MkNode(<<>>, cs[3], <<>>, <<>>, <<>>, <<2, 2, 2>>) >>,
                     <<MkSkin(<<2, 0>>, 1)>>, << [channels |-> <<Slide(1)>>] >>),
             Undecodable) :
        cs \in { << <<1>>, <<2>>, <<>> >>, << <<>>, <<0>>, <<1>> >>, << <<2>>, <<2>>, <<>> >>,
                 << <<1, 2>>, <<>>, <<>> >>, << <<1>>, <<2>>, <<0>> >>, << <<>>, <<2, 0>>, <<>> >> } }

\* animations of every length: no time at all, one tick, one second, and more
\* sampled frames than a uint32_t counts
LengthInputs ==
    { MkBake(<<"m">>, <<>>,
             MkScene(<<Bone(<<"A">>)>>, <<MkSkin(<<0>>, 0)>>,
                     << [channels |-> << MkSfChannel(TRUE, 0, "translation", TRUE, <<0, last>>, TRUE,
                                                     <<1, 2, 3, 4, 5, 6>>) >>] >>),
             Undecodable) :
        last \in { 0, 1, TicksPerSecond, 2 * U32Mod + 2 } }

\* the calls that fail
FailingInputs ==
    { MkBake(<<"m">>, ap, base, anim) :
        ap \in { <<>>, <<"a">> },
        base \in { Undecodable, MkScene(<<Bone(<<"A">>)>>, <<>>, << [channels |-> <<>>] >>),
                   MkScene(<<Bone(<<"A">>)>>, <<MkSkin(<<>>, 0)>>, << [channels |-> <<>>] >>),
                   MkScene(<<Bone(<<"A">>)>>, <<MkSkin(<<0>>, 0)>>, <<>>) },
        anim \in { Undecodable, MkScene(<<>>, <<>>, <<>>) } }

\* what *out_frames holds before the call
PriorFrames == { DefaultFrames, [joint_count |-> 1, frame_count |-> 1, duration |-> 0, palettes |-> <<ZeroMatrix>>] }

SfInit ==
    /\ sf_in \in MappingInputs \cup LocalInputs \cup TreeInputs \cup ForkInputs \cup LengthInputs \cup FailingInputs
    /\ sf_pc = "ready"
    /\ sf_ret = FALSE
    /\ sf_err = <<>>
    /\ sf_out \in PriorFrames
    /\ sf_tracks = <<>>
    /\ sf_attach = <<>>
    /\ sf_duration = 0
    /\ sf_ci = 0
    /\ sf_fi = 0
    /\ sf_t = Rat(0, 1)
    /\ sf_order = <<>>
    /\ sf_local = <<>>
    /\ sf_global = <<>>

LgNext ==
    \/ LoadBegin
    \/ BeginSelector
    \/ BeginMesh
    \/ ProcessPrimitive
    \/ EndSelector
    \/ SynthesizeNormals
    \/ CenterPositions
    \/ StoreMesh

InitMesh == RdIdle /\ LgInit /\ FnIdle /\ AlIdle /\ SfIdle

SpecMesh == InitMesh /\ [][LgNext]_vars

RdNext ==
    \/ CallReadAccessor
    \/ CallReadIndices
    \/ CallReadAccessorUint4
    \/ CallReadAccessorMat4

InitAccessor == RdInit /\ LgIdle /\ FnIdle /\ AlIdle /\ SfIdle

SpecAccessor == InitAccessor /\ [][RdNext]_vars

DurationNext == CallSampleAnimationDuration

InitDuration ==
    /\ RdIdle /\ LgIdle /\ AlIdle /\ SfIdle
    /\ fn_call \in DurationInputs
    /\ fn_pc = "ready"
    /\ fn_out = <<>>

SpecDuration == InitDuration /\ [][DurationNext]_vars

\* one caller at a time
AnimNext ==
    \/ FsChange
    \/ AlCall(1)
    \/ AlLookup(1)
    \/ AlDecode(1)

\* two callers on two threads, their steps interleaved
AnimThreadsNext ==
    \/ AlCall(1)
    \/ AlCall(2)
    \/ AlLookup(1)
    \/ AlLookup(2)
    \/ AlDecode(1)
    \/ AlDecode(2)
    \/ AlRace(1)
    \/ AlRace(2)

InitAnim == RdIdle /\ LgIdle /\ FnIdle /\ AlInit /\ SfIdle

SpecAnimThreads == InitAnim /\ [][AnimThreadsNext]_vars

SpecAnim == InitAnim /\ [][AnimNext]_vars
NameNext == CallCanonicalNodeName

InitName ==
    /\ RdIdle /\ LgIdle /\ AlIdle /\ SfIdle
    /\ fn_call \in NameInputs
    /\ fn_pc = "ready"
    /\ fn_out = <<>>

SpecName == InitName /\ [][NameNext]_vars
TrackNext ==
    \/ CallSampleTrackVec3
    \/ CallSampleTrackQuat

InitTrack ==
    /\ RdIdle /\ LgIdle /\ AlIdle /\ SfIdle
    /\ fn_call \in TrackInputs
    /\ fn_pc = "ready"
    /\ fn_out = <<>>

SpecTrack == InitTrack /\ [][TrackNext]_vars

MeshCacheNext ==
    \/ CallSaveMeshCache
    \/ CallLoadMeshCache

InitMeshCache ==
    /\ RdIdle /\ LgIdle /\ AlIdle /\ SfIdle
    /\ fn_call \in MeshCacheInputs
    /\ fn_pc = "ready"
    /\ fn_out = <<>>

SpecMeshCache == InitMeshCache /\ [][MeshCacheNext]_vars

SkinNext ==
    \/ SfBegin
    \/ SfChannel
    \/ SfResize
    \/ SfFrame
    \/ SfReturn

InitSkin == RdIdle /\ LgIdle /\ FnIdle /\ AlIdle /\ SfInit

SpecSkin == InitSkin /\ [][SkinNext]_vars

(***************************************************************************)
(* Claims about the buffer readers (checked under SpecAccessor).           *)
(***************************************************************************)
\* the component count and component size the called reader copies per element
RdComps ==
    CASE rd_fn.name = "ReadAccessor" -> rd_fn.expected_components
      [] rd_fn.name = "ReadIndices" -> 1
      [] rd_fn.name = "ReadAccessorUint4" -> 4
      [] OTHER -> 16

RdCompSize ==
    IF rd_fn.name \in {"ReadIndices", "ReadAccessorUint4"}
    THEN UintComponentSize(rd_acc.componentType) ELSE 4

\* the accessor's required byte range, in unbounded arithmetic, exceeds the buffer
RdRangeExceeds ==
    LET elemSize == RdCompSize * RdComps
        stride == IF rd_acc.stride = 0 THEN elemSize ELSE rd_acc.stride
    IN  /\ rd_acc.count > 0
        /\ rd_acc.viewOffset + rd_acc.byteOffset + stride * (rd_acc.count - 1) + elemSize
               > rd_buflen

RdSupported ==
    /\ Accepts(rd_fn, rd_acc.componentType, rd_acc.type)
    /\ ViewAndBufferInRange(rd_acc)

\* C1: every byte a reader dereferences lies inside the buffer, for every accessor
\* and buffer length, wrapping inputs included.
C1_ReadsInsideBuffer ==
    rd_pc # "ready" => \A o \in rd_reads : o < rd_buflen

\* C2: a reader either returns true with exactly count * componentCount values in
\* the output, or (range exceeds the buffer) returns false and the output holds
\* what it held before the call.
C2_TwoOutcomes ==
    [][(rd_pc = "ready" /\ RdSupported) =>
         /\ rd_pc' = "returned"
         /\ \/ rd_ret' /\ Len(rd_out') = rd_acc.count * RdComps
            \/ ~rd_ret' /\ RdRangeExceeds /\ rd_out' = rd_out]_vars


(***************************************************************************)
(* Claims about LoadGltfMesh (checked under SpecMesh).                     *)
(***************************************************************************)
RECURSIVE Concat(_)
Concat(ss) == IF ss = <<>> THEN <<>> ELSE Head(ss) \o Concat(Tail(ss))

\* the primitives a selector stands for, in mesh order then primitive order
PrimsUnder(selector) ==
    LET found == ResolveSelector(model, selector)
    IN  Concat([k \in 1..Len(found) |->
                  IF found[k] >= 0 /\ found[k] < Len(model.meshes)
                  THEN model.meshes[found[k] + 1].primitives ELSE <<>>])

\* the primitives of the whole call, in selector order
RequestedPrims == Concat([s \in 1..Len(selectors) |-> PrimsUnder(selectors[s])])

HasPositions(prim) == prim.has_position /\ prim.position_ok

Readable(prims) == SelectSeq(prims, HasPositions)

\* the source vertices a primitive names: its index values, or 0..n-1
Named(prim) ==
    IF prim.has_indices THEN { prim.indices[j] : j \in 1..Len(prim.indices) }
    ELSE 0..(Len(prim.positions) - 1)

Covers(arr, prim) == \A i \in Named(prim) : i < Len(arr)

\* every index names a source vertex, and every optional array covers the vertices read
WellIndexed(prim) ==
    /\ Covers(prim.positions, prim)
    /\ prim.normals # <<>> => Covers(prim.normals, prim)
    /\ prim.uvs # <<>> => Covers(prim.uvs, prim)
    /\ prim.colors # <<>> => Covers(prim.colors, prim)
    /\ (prim.joints # <<>> /\ prim.weights # <<>>) =>
           Covers(prim.joints, prim) /\ Covers(prim.weights, prim)

NoStrayReads == \A k \in 1..Len(RequestedPrims) :
                    HasPositions(RequestedPrims[k]) => WellIndexed(RequestedPrims[k])

\* the vertices a primitive contributes: one per index value, in index order; its
\* own vertices in order when it has no index accessor
Expanded(prim, arr) ==
    IF prim.has_indices
    THEN [j \in 1..Len(prim.indices) |-> arr[prim.indices[j] + 1]]
    ELSE [j \in 1..Len(prim.positions) |-> arr[j]]

ExpectedStream(Arr(_)) ==
    Concat([k \in 1..Len(Readable(RequestedPrims)) |->
              IF Arr(Readable(RequestedPrims)[k]) = <<>> THEN <<>>
              ELSE Expanded(Readable(RequestedPrims)[k], Arr(Readable(RequestedPrims)[k]))])

PositionsOf(prim) == prim.positions

NormalsOf(prim) == prim.normals

UvsOf(prim) == prim.uvs

ColorsOf(prim) == prim.colors

JointsOf(prim) == prim.joints

WeightsOf(prim) == prim.weights

\* joints and weights travel together: a primitive missing either gets the default
ExpectedSkin(Arr(_), default) ==
    Concat([k \in 1..Len(Readable(RequestedPrims)) |->
              LET prim == Readable(RequestedPrims)[k]
              IN  IF prim.joints # <<>> /\ prim.weights # <<>>
                  THEN Expanded(prim, Arr(prim))
                  ELSE [j \in 1..Len(Expanded(prim, prim.positions)) |-> default]])

\* C3: an indexed primitive contributes one vertex per index value, the j-th with
\* the attributes of source vertex i_j, an unindexed one its vertices 0..n-1, and
\* primitives are appended in selector, mesh, primitive order (stated for scenes
\* whose indices name source vertices that exist; idx * 3 is 32-bit arithmetic in
\* the source and the scenes stay below the 2^32 / 3 vertices where it would wrap).
C3_IndexExpansion ==
    (lg_pc = "finish" /\ NoStrayReads) =>
        /\ out_pos = ExpectedStream(PositionsOf)
        /\ out_norm = ExpectedStream(NormalsOf)
        /\ out_uv = ExpectedStream(UvsOf)
        /\ out_col = ExpectedStream(ColorsOf)
        /\ out_joints = ExpectedSkin(JointsOf, <<0, 0, 0, 0>>)
        /\ out_weights = ExpectedSkin(WeightsOf, <<1, 0, 0, 0>>)

C3_Witness ==
    /\ lg_pc = "finish"
    /\ NoStrayReads
    /\ Len(model.meshes) = 1
    /\ model.meshes[1].primitives[1].indices = <<1, 0, 1>>
    /\ out_pos = <<Vertex(2), Vertex(1), Vertex(2)>>
    /\ Len(out_norm) = 3

Vertices(mesh) == Len(mesh.positions)

\* C4: after a successful call there is one normal per position, uvs and colors are
\* empty or one per position, joints and weights one four-tuple per position.
C4_ParallelArrays ==
    (lg_pc = "done" /\ lg_ret) =>
        /\ Len(out_mesh.normals) = Vertices(out_mesh)
        /\ out_mesh.uvs = <<>> \/ Len(out_mesh.uvs) = Vertices(out_mesh)
        /\ out_mesh.colors = <<>> \/ Len(out_mesh.colors) = Vertices(out_mesh)
        /\ Len(out_mesh.joints) = Vertices(out_mesh)
        /\ Len(out_mesh.weights) = Vertices(out_mesh)

\* every requested selector names a mesh
AllResolve == \A s \in 1..Len(selectors) : ResolveSelector(model, selectors[s])[1] >= 0

NoVertexData(mesh) ==
    /\ mesh.positions = <<>>
    /\ mesh.normals = <<>>
    /\ mesh.uvs = <<>>
    /\ mesh.colors = <<>>
    /\ mesh.joints = <<>>
    /\ mesh.weights = <<>>

Decoded == in_loadable /\ Len(model.meshes) > 0

\* C5 as claimed: one primitive of a selected mesh without POSITION makes the call
\* fail with "Missing POSITION" and no vertex data, whatever its siblings hold.
C5_AnyMissingPositionFails ==
    (lg_pc = "done" /\ Decoded /\ AllResolve
       /\ \E k \in 1..Len(RequestedPrims) : ~RequestedPrims[k].has_position) =>
        /\ ~lg_ret
        /\ error = <<"Missing POSITION">>
        /\ NoVertexData(out_mesh)

\* C5 as amended: the call fails with "Missing POSITION" and no vertex data exactly
\* when, under some sub-selector, no primitive has a readable POSITION; a primitive
\* without POSITION beside a readable one is skipped.
C5_SelectorWithoutPositionFails ==
    (lg_pc = "done" /\ Decoded /\ AllResolve) =>
        /\ (\E s \in 1..Len(selectors) : Readable(PrimsUnder(selectors[s])) = <<>>)
             <=> (~lg_ret /\ error = <<"Missing POSITION">>)
        /\ ~lg_ret => NoVertexData(out_mesh)

C5_Witness ==
    /\ lg_pc = "done"
    /\ Decoded
    /\ AllResolve
    /\ ~lg_ret
    /\ error = <<"Missing POSITION">>
    /\ Len(selectors) = 2
    /\ Readable(PrimsUnder(selectors[1])) # <<>>
    /\ \E k \in 1..Len(PrimsUnder(selectors[2])) : ~PrimsUnder(selectors[2])[k].has_position

\* the number of vertices a selector's primitives emit
EmittedUnder(selector) ==
    Len(Concat([k \in 1..Len(Readable(PrimsUnder(selector))) |->
                  EmitOrder(Readable(PrimsUnder(selector))[k])]))

\* C6: on every successful return each requested sub-selector has contributed at
\* least one vertex position.
C6_EverySelectorContributes ==
    (lg_pc = "done" /\ lg_ret) =>
        \A s \in 1..Len(selectors) : EmittedUnder(selectors[s]) > 0

\* C7: every failing return leaves *out_mesh at its default value.
C7_FailureLeavesDefault ==
    (lg_pc = "done" /\ ~lg_ret) => out_mesh = DefaultMesh

\* every coordinate of every position is within [-0.001, 1.001]
AllWithin(positions, lo, hi) ==
    \A i \in 1..Len(positions) : \A a \in 1..3 :
        positions[i][a] >= lo /\ positions[i][a] <= hi

\* C8: the centering step subtracts 0.5 from every coordinate iff every coordinate
\* of every position is within [-0.001, 1.001], leaves the positions alone
\* otherwise, and never changes the other arrays (coordinates are finite numbers).
C8_CenteringIff ==
    [][lg_pc = "center" =>
         /\ Len(out_pos') = Len(out_pos)
         /\ AllWithin(out_pos, LoBound, HiBound) =>
                \A i \in 1..Len(out_pos) : \A a \in 1..3 : out_pos'[i][a] = out_pos[i][a] - Half
         /\ ~AllWithin(out_pos, LoBound, HiBound) => out_pos' = out_pos
         /\ UNCHANGED <<out_norm, out_uv, out_col, out_joints, out_weights>>]_vars

C8_Witness ==
    /\ lg_pc = "store"
    /\ model.meshes[1].primitives[1].positions = << <<1001, -1, 500>>, Origin >>
    /\ ~model.meshes[1].primitives[1].has_indices
    /\ out_pos = << <<501, -501, 0>>, <<-500, -500, -500>> >>

\* C9 as claimed: raw positions all inside [0,1]^3 come out with minimum -0.5 and
\* maximum +0.5 on every axis.
C9_UnitCubeSymmetric ==
    [][(lg_pc = "center" /\ out_pos # <<>> /\ AllWithin(out_pos, 0, 2 * Half)) =>
         \A a \in 1..3 : /\ MinOf(Axis(out_pos', a)) = -Half
                         /\ MaxOf(Axis(out_pos', a)) = Half]_vars

\* C9 as amended: raw positions inside [0,1]^3 whose bounding box is the whole unit
\* cube (minimum 0 and maximum 1 on every axis) come out with minimum -0.5 and
\* maximum +0.5 on every axis.
C9_FullCubeSymmetric ==
    [][(lg_pc = "center" /\ out_pos # <<>> /\ AllWithin(out_pos, 0, 2 * Half)
          /\ \A a \in 1..3 : /\ MinOf(Axis(out_pos, a)) = 0
                             /\ MaxOf(Axis(out_pos, a)) = 2 * Half) =>
         \A a \in 1..3 : /\ MinOf(Axis(out_pos', a)) = -Half
                         /\ MaxOf(Axis(out_pos', a)) = Half]_vars

C9_Witness ==
    /\ lg_pc = "done"
    /\ lg_ret
    /\ model.meshes[1].primitives[1].positions = <<Origin, Corner>>
    /\ ~model.meshes[1].primitives[1].has_indices
    /\ out_mesh.positions = << <<-500, -500, -500>>, <<500, 500, 500>> >>

\* the maximal '#'-free runs of the fragment, as (first, last) positions
Runs(f) ==
    { r \in (1..Len(f)) \X (1..Len(f)) :
        /\ r[1] <= r[2]
        /\ \A k \in r[1]..r[2] : f[k] # "#"
        /\ r[1] = 1 \/ f[r[1] - 1] = "#"
        /\ r[2] = Len(f) \/ f[r[2] + 1] = "#" }

Fragment == SplitPathFragment(in_path).fragment

MeshesNamed(name) == { i \in 1..Len(model.meshes) : model.meshes[i].name = name }

NodesNamed(name) ==
    { i \in 1..Len(model.nodes) : model.nodes[i].name = name /\ model.nodes[i].mesh >= 0 }

\* C10: the sub-selectors are the non-empty '#'-delimited parts of the fragment (one
\* empty selector, meaning all meshes in index order, when there is none); a
\* sub-selector selects the lowest-index mesh of that name, else the mesh of the
\* lowest-index node of that name with a mesh reference, else the call fails with
\* "Mesh not found: <selector>".
C10_SelectorResolution ==
    /\ lg_pc \notin {"idle", "start"} =>
         IF Runs(Fragment) = {} THEN selectors = << <<>> >>
         ELSE /\ Len(selectors) = Cardinality(Runs(Fragment))
              /\ \A k \in 1..Len(selectors) :
                   \E r \in Runs(Fragment) :
                       /\ selectors[k] = SubSeq(Fragment, r[1], r[2])
                       /\ Cardinality({ q \in Runs(Fragment) : q[1] < r[1] }) = k - 1
    /\ lg_pc \in {"mesh", "primitive", "selector_end"} =>
         LET sel == selectors[sel_index + 1]
         IN  IF sel = <<>>
             THEN mesh_indices = [k \in 1..Len(model.meshes) |-> k - 1]
             ELSE /\ Len(mesh_indices) = 1
                  /\ IF MeshesNamed(sel) # {}
                     THEN /\ mesh_indices[1] + 1 \in MeshesNamed(sel)
                          /\ \A j \in MeshesNamed(sel) : mesh_indices[1] + 1 <= j
                     ELSE \E i \in NodesNamed(sel) :
                             /\ model.nodes[i].mesh = mesh_indices[1]
                             /\ \A j \in NodesNamed(sel) : i <= j
    /\ (lg_pc = "done" /\ Decoded /\ sel_index < Len(selectors)
          /\ selectors[sel_index + 1] # <<>>
          /\ MeshesNamed(selectors[sel_index + 1]) = {}
          /\ NodesNamed(selectors[sel_index + 1]) = {}) =>
         /\ ~lg_ret
         /\ error = <<"Mesh not found: ">> \o selectors[sel_index + 1]
    /\ (lg_pc = "done" /\ error # <<>> /\ error[1] = "Mesh not found: ") =>
         /\ MeshesNamed(selectors[sel_index + 1]) = {}
         /\ NodesNamed(selectors[sel_index + 1]) = {}

C10_Witness ==
    /\ lg_pc = "mesh"
    /\ Len(selectors) = 2
    /\ sel_index = 1
    /\ MeshesNamed(selectors[2]) # {}
    /\ \E i \in NodesNamed(selectors[2]) : model.nodes[i].mesh # mesh_indices[1]
    /\ Cardinality(MeshesNamed(selectors[2])) = 2

(***************************************************************************)
(* Claims about SampleAnimationDuration (checked under SpecDuration).      *)
(***************************************************************************)
\* the channel's key times lie inside its buffer, in unbounded arithmetic
KeysInsideBuffer(ch) ==
    LET stride == IF ch.acc.stride = 0 THEN 4 ELSE ch.acc.stride
    IN  ch.acc.viewOffset + ch.acc.byteOffset + stride * (ch.acc.count - 1) + 4 <= 4 * Len(ch.data)

Qualifies(ch) ==
    /\ ch.sampler \in 0..(ch.numSamplers - 1)
    /\ ch.input \in 0..(ch.numAccessors - 1)
    /\ ch.acc.bufferView \in 0..(ch.acc.numViews - 1)
    /\ ch.acc.buffer \in 0..(ch.acc.numBuffers - 1)
    /\ ch.acc.count > 0
    /\ KeysInsideBuffer(ch)

LastKeyTime(ch) ==
    LET stride == IF ch.acc.stride = 0 THEN 4 ELSE ch.acc.stride
    IN  ch.data[((ch.acc.viewOffset + ch.acc.byteOffset + stride * (ch.acc.count - 1)) \div 4) + 1]

ExpectedDuration(anim) ==
    MaxOf({0} \cup { LastKeyTime(anim.channels[k]) :
                       k \in { j \in 1..Len(anim.channels) : Qualifies(anim.channels[j]) } })

\* C14: SampleAnimationDuration returns the largest last key time over the channels
\* that qualify (references in range, at least one key, key data inside the buffer),
\* skips all other channels, returns 0 when none qualifies, and is never negative.
C14_DurationIsMaxLastKey ==
    (fn_call.name = "SampleAnimationDuration" /\ fn_pc # "ready") =>
        /\ fn_pc = "returned"
        /\ fn_out = ExpectedDuration(fn_call.anim)
        /\ fn_out >= 0

(***************************************************************************)
(* Claims about LoadGltfAnimationLibrary (checked under SpecAnim).         *)
(***************************************************************************)
\* the caller's call has just returned in this step
AlReturns(c) == al_pc[c] # "done" /\ al_pc'[c] = "done"

\* C11: once a call for a base path has returned, every later call for that base
\* path returns the same boolean and error message, the same clips when that is a
\* success, and does not read the file again.
C11_ResultsAreSticky ==
    [][\A c \in Callers :
         LET first == al_first[BasePath(al_path[c])]
         IN  (AlReturns(c) /\ first.set) =>
                /\ al_ret'[c] = first.ret
                /\ al_err'[c] = first.err
                /\ (first.ret => al_out'[c] = first.clips)
                /\ ~al_read'[c]]_vars

\* a failure is replayed although the file has become a scene with an animation
C11_Witness ==
    \E c \in Callers :
        LET key == BasePath(al_path[c])
        IN  /\ al_pc[c] = "done" /\ ~al_read[c]
            /\ al_first[key].set /\ ~al_first[key].ret /\ ~al_ret[c]
            /\ al_err[c] = al_first[key].err
            /\ fs[key].ok /\ fs[key].animations # <<>>

\* the characters of a path before its first '#'
BeforeHash(path) ==
    LET clean == { n \in 0..Len(path) : \A i \in 1..n : path[i] # "#" }
    IN  SubSeq(path, 1, MaxOf(clean))

ExpectedKey(path) == IF BeforeHash(path) = <<>> THEN path ELSE BeforeHash(path)

HasHash(s) == \E i \in 1..Len(s) : s[i] = "#"

\* C12 as stated: every key of the animation cache is the called path with its
\* '#...' fragment stripped, so that no key contains '#', for every path, including
\* a path whose part before the first '#' is empty.
C12_NoKeyHasHash == \A k \in DOMAIN g_animation_cache : ~HasHash(k)

\* C12 amended: the key of a call is the part of its path before the first '#' when
\* that part is not empty, and the whole path otherwise; only keys of the second
\* kind contain '#', and they begin with it.
C12_KeyIsBasePathUnlessEmpty ==
    /\ \A c \in Callers : al_pc[c] = "done" => ExpectedKey(al_path[c]) \in DOMAIN g_animation_cache
    /\ \A k \in DOMAIN g_animation_cache :
          /\ \E p \in AlPaths : k = ExpectedKey(p)
          /\ HasHash(k) => Head(k) = "#"

\* p and p#a share the entry of p, while #a and #b have an entry each
C12_Witness ==
    /\ DOMAIN g_animation_cache = { <<"p">>, <<"#", "a">>, <<"#", "b">> }
    /\ \E c \in Callers : al_pc[c] = "done" /\ al_path[c] = <<"p", "#", "b">> /\ ~al_read[c]

\* C13: a call that decodes a scene succeeds if and only if the scene has at least
\* one animation; then the clip list has one clip per animation, in the scene's
\* order, clip i named after animation i, or "default" when that name is empty;
\* with no animation the call returns false with the error 'No animations'.
C13_OneClipPerAnimation ==
    \A c \in Callers :
        LET first == al_first[BasePath(al_path[c])]
            anims == first.src.animations
        IN  (al_pc[c] = "done" /\ al_read[c] /\ first.src.ok) =>
               /\ al_ret[c] = first.ret /\ al_err[c] = first.err
               /\ al_ret[c] <=> anims # <<>>
               /\ al_ret[c] =>
                     /\ al_out[c] = first.clips
                     /\ Len(al_out[c]) = Len(anims)
                     /\ \A i \in 1..Len(anims) :
                           al_out[c][i].name = IF anims[i].name = <<>> THEN <<"default">>
                                               ELSE anims[i].name
                     /\ al_err[c] = <<>>
               /\ ~al_ret[c] => al_err[c] = <<"No animations">>

\* a scene with an unnamed and a named animation gave the clips "default" and "w"
C13_Witness ==
    \E c \in Callers :
        /\ al_pc[c] = "done" /\ al_read[c] /\ al_ret[c]
        /\ al_first[BasePath(al_path[c])].src = Scene(<<Unnamed, Walk>>)
        /\ Len(al_out[c]) = 2
        /\ al_out[c][1].name = <<"default">> /\ al_out[c][2].name = <<"w">>

\* C15: every failing return, on a miss as on a replay of a stored failure, leaves
\* the caller's clip list empty, whatever it held before the call.
C15_FailureLeavesEmpty ==
    \A c \in Callers : (al_pc[c] = "done" /\ ~al_ret[c]) => al_out[c] = <<>>

(***************************************************************************)
(* Claims about CanonicalNodeName (checked under SpecName).                *)
(***************************************************************************)
IsSeparator(c) == c \in {":", "|"}

\* what follows the last separator of s, or s when it has none
AfterLastSeparator(s) ==
    LET at == { i \in 1..Len(s) : IsSeparator(s[i]) }
    IN  IF at = {} THEN s ELSE SubSeq(s, MaxOf(at) + 1, Len(s))

\* what follows the last ch of s when s does not end with it, and s otherwise
AfterLastInner(s, ch) ==
    IF \E i \in 1..Len(s) : s[i] = ch /\ (s[Len(s)] # ch)
    THEN SubSeq(s, MaxOf({ i \in 1..Len(s) : s[i] = ch }) + 1, Len(s))
    ELSE s

\* C18 as stated: for every name, names that end with a separator included, the
\* result is the lowercased name without everything up to and including its last
\* ':' or '|', and without its non-alphanumeric characters.
C18_StripsThroughLastSeparator ==
    (fn_call.name = "CanonicalNodeName" /\ fn_pc = "returned") =>
        fn_out = SelectSeq(AfterLastSeparator(ToLowerCopy(fn_call.arg)), IsAlnum)

\* C18 amended: the lowercased name loses everything up to and including its last
\* ':' unless it ends with ':', the rest loses everything up to and including its
\* last '|' unless it ends with '|', and then the non-alphanumeric characters go.
C18_StripsInnerSeparators ==
    (fn_call.name = "CanonicalNodeName" /\ fn_pc = "returned") =>
        fn_out = SelectSeq(AfterLastInner(AfterLastInner(ToLowerCopy(fn_call.arg), ":"), "|"), IsAlnum)

\* "A|b:" keeps "b": the final ':' strips nothing, the '|' before it does
C18_Witness ==
    /\ fn_pc = "returned"
    /\ fn_call.name = "CanonicalNodeName"
    /\ fn_call.arg = <<"A", "|", "b", ":">>
    /\ fn_out = <<"b">>

(***************************************************************************)
(* Claims about SampleTrackVec3 and SampleTrackQuat (checked under         *)
(* SpecTrack).                                                             *)
(***************************************************************************)
\* every key time is a number
Numbers(times) == \A i \in 1..Len(times) : times[i] >= 0

NonDecreasing(times) ==
    Numbers(times) /\ \A i \in 1..(Len(times) - 1) : times[i] <= times[i + 1]

StrictlyIncreasing(times) ==
    Numbers(times) /\ \A i \in 1..(Len(times) - 1) : times[i] < times[i + 1]

\* the call under study has returned; its track has keys and a full value array
Sampled(fname, width) ==
    /\ fn_call.name = fname
    /\ fn_pc = "returned"
    /\ Len(fn_call.track.times) > 0
    /\ Len(fn_call.track.values) >= Len(fn_call.track.times) * width

\* the components sampled, before normalization in the case of a quaternion
SampledValue == IF fn_call.name = "SampleTrackQuat" THEN fn_out.q ELSE fn_out

\* component c of key k (from 1)
KeyComponent(k, c, width) == fn_call.track.values[(k - 1) * width + c]

IsKey(k, width) ==
    \A c \in 1..width : SampledValue[c].n = KeyComponent(k, c, width) * SampledValue[c].d

\* the value is v_k + (sign * v_(k+1) - v_k) * (t - t_k) / (t_(k+1) - t_k), the division
\* multiplied out
IsBetween(k, width, sign) ==
    LET t0 == fn_call.track.times[k]
        t1 == fn_call.track.times[k + 1]
    IN  /\ t0 <= fn_call.t /\ fn_call.t <= t1
        /\ \A c \in 1..width :
              LET v0 == KeyComponent(k, c, width)
                  v1 == sign * KeyComponent(k + 1, c, width)
              IN  SampledValue[c].n * (t1 - t0) =
                      SampledValue[c].d * (v0 * (t1 - t0) + (v1 - v0) * (fn_call.t - t0))

AtOrBeforeFirst == fn_call.t <= fn_call.track.times[1]

AtOrAfterLast == fn_call.t >= fn_call.track.times[Len(fn_call.track.times)]

InsideKeys(width, signs) ==
    \E k \in 1..(Len(fn_call.track.times) - 1) : \E sign \in signs : IsBetween(k, width, sign)

\* the three rules of the claim and the rule for key times, for one of the samplers
SamplesAsStated(width, signs) ==
    /\ AtOrBeforeFirst => IsKey(1, width)
    /\ AtOrAfterLast => IsKey(Len(fn_call.track.times), width)
    /\ ~AtOrBeforeFirst /\ ~AtOrAfterLast => InsideKeys(width, signs)
    /\ \A k \in 1..Len(fn_call.track.times) : fn_call.t = fn_call.track.times[k] => IsKey(k, width)

\* the same with the first rule going before the second, and one of the keys of a
\* shared key time
SamplesWithTies(width, signs) ==
    /\ AtOrBeforeFirst => IsKey(1, width)
    /\ ~AtOrBeforeFirst /\ AtOrAfterLast => IsKey(Len(fn_call.track.times), width)
    /\ ~AtOrBeforeFirst /\ ~AtOrAfterLast => InsideKeys(width, signs)
    /\ (\E k \in 1..Len(fn_call.track.times) : fn_call.t = fn_call.track.times[k]) =>
           \E k \in 1..Len(fn_call.track.times) : fn_call.t = fn_call.track.times[k] /\ IsKey(k, width)

\* C19 as stated: on a track with non-decreasing key times and a full value array,
\* SampleTrackVec3 returns the first value at or before the first key time, the last
\* value at or after the last key time, the linear interpolation of an adjacent pair
\* of keys around t otherwise, and at a key time that key's value; SampleTrackQuat
\* selects the same keys and the same factor.
C19_SamplesNonDecreasingTracks ==
    /\ (Sampled("SampleTrackVec3", 3) /\ NonDecreasing(fn_call.track.times)) =>
           SamplesAsStated(3, {1})
    /\ (Sampled("SampleTrackQuat", 4) /\ NonDecreasing(fn_call.track.times)) =>
           fn_out.normalized /\ SamplesAsStated(4, {1, -1})

\* C19 amended: the rules hold as stated on tracks with strictly increasing key
\* times; with key times that repeat, the first rule goes before the second and a
\* key time shared by several keys gives the value of one of them.
C19_SamplesIncreasingTracks ==
    /\ (Sampled("SampleTrackVec3", 3) /\ StrictlyIncreasing(fn_call.track.times)) =>
           SamplesAsStated(3, {1})
    /\ (Sampled("SampleTrackQuat", 4) /\ StrictlyIncreasing(fn_call.track.times)) =>
           fn_out.normalized /\ SamplesAsStated(4, {1, -1})
    /\ (Sampled("SampleTrackVec3", 3) /\ NonDecreasing(fn_call.track.times)) =>
           SamplesWithTies(3, {1})
    /\ (Sampled("SampleTrackQuat", 4) /\ NonDecreasing(fn_call.track.times)) =>
           fn_out.normalized /\ SamplesWithTies(4, {1, -1})

\* a quarter of the way from the key at 1 to the key at 5: 1 + (16 - 1) / 4
C19_Witness ==
    /\ Sampled("SampleTrackVec3", 3)
    /\ fn_call.track.times = <<1, 5>>
    /\ fn_call.t = 2
    /\ fn_call.track.values = <<1, 4, 9, 16, 25, 36>>
    /\ fn_out[1].n * 4 = 19 * fn_out[1].d

(***************************************************************************)
(* Claims about LoadGltfSkinningFrames (checked under SpecSkin).           *)
(***************************************************************************)
\* the channels of the animation baked, and the nodes their targets refer to
BakedChannels == AnimScene.animations[1].channels

\* channel ci has been passed by the loop, and nothing but its target's mapping
\* can keep its track from being stored
Passed(ci) ==
    /\ sf_pc \in {"channels", "frames", "done"}
    /\ ci \in 1..Len(sf_attach)
    /\ BakedChannels[ci].refs_ok /\ BakedChannels[ci].in_ok /\ BakedChannels[ci].out_ok
    /\ BakedChannels[ci].target_path \in {"translation", "rotation", "scale"}

\* C16: when the animation comes from the base model's own file, a channel that
\* targets node n attaches its track to node n, also when n is unnamed or shares
\* its name with another node.
C16_SameFileTargetsDirect ==
    (sf_pc # "idle" /\ SameFile(sf_in.model_path, sf_in.animation_path)) =>
        \A ci \in 1..Len(sf_attach) :
            (Passed(ci) /\ BakedChannels[ci].target_node \in 0..(Len(sf_in.base.nodes) - 1)) =>
                sf_attach[ci] = BakedChannels[ci].target_node

\* the base-model nodes (from 0) a target name matches exactly, and by canonical name
ExactMatches(n) ==
    { i \in 0..(Len(sf_in.base.nodes) - 1) : n # <<>> /\ sf_in.base.nodes[i + 1].name = n }

CanonicalMatches(n) ==
    { i \in 0..(Len(sf_in.base.nodes) - 1) :
        /\ sf_in.base.nodes[i + 1].name # <<>>
        /\ CanonicalNodeName(n) # <<>>
        /\ CanonicalNodeName(sf_in.base.nodes[i + 1].name) = CanonicalNodeName(n) }

\* the name of the node channel ci targets in the animation file
TargetName(ci) == sf_in.anim.nodes[BakedChannels[ci].target_node + 1].name

HasTarget(ci) == BakedChannels[ci].target_node \in 0..(Len(sf_in.anim.nodes) - 1)

\* exact name first, canonical name second, no track otherwise; and the bake succeeds
MapsByName ==
    /\ \A ci \in 1..Len(sf_attach) :
          Passed(ci) =>
             IF ~HasTarget(ci) THEN sf_attach[ci] = -1
             ELSE IF ExactMatches(TargetName(ci)) # {}
             THEN sf_attach[ci] \in ExactMatches(TargetName(ci))
             ELSE IF CanonicalMatches(TargetName(ci)) # {}
             THEN sf_attach[ci] \in CanonicalMatches(TargetName(ci))
             ELSE sf_attach[ci] = -1
    /\ sf_pc = "done" => sf_ret

DistinctFile == sf_pc # "idle" /\ sf_in.base.ok /\ ~SameFile(sf_in.model_path, sf_in.animation_path)

\* C17 as stated: with a distinct animation file a channel goes to the base node of
\* exactly the target's name, else to one of the same canonical name, else nowhere
\* while the bake succeeds; and a target with an empty name or an empty canonical
\* name never maps.
C17_NamelessTargetsNeverMap ==
    (DistinctFile /\ sf_in.anim.ok /\ sf_in.anim.animations # <<>>) =>
        /\ MapsByName
        /\ \A ci \in 1..Len(sf_attach) :
              (Passed(ci) /\ HasTarget(ci) /\ CanonicalNodeName(TargetName(ci)) = <<>>) =>
                  sf_attach[ci] = -1

\* C17 amended: the same order of matches; a target with an empty name never maps,
\* and one with a name whose canonical name is empty maps by exact name only.
C17_ExactThenCanonical ==
    (DistinctFile /\ sf_in.anim.ok /\ sf_in.anim.animations # <<>>) =>
        /\ MapsByName
        /\ \A ci \in 1..Len(sf_attach) :
              (Passed(ci) /\ HasTarget(ci)) =>
                  /\ TargetName(ci) = <<>> => sf_attach[ci] = -1
                  /\ (CanonicalNodeName(TargetName(ci)) = <<>> /\ sf_attach[ci] # -1) =>
                         sf_in.base.nodes[sf_attach[ci] + 1].name = TargetName(ci)

\* the target "A" went to the second base node, of that name, not to the first,
\* "b:A", of the same canonical name
C17_Witness ==
    /\ DistinctFile /\ sf_pc = "done" /\ sf_ret
    /\ Len(sf_in.base.nodes) = 2
    /\ sf_in.base.nodes[1].name = <<"b", ":", "A">> /\ sf_in.base.nodes[2].name = <<"A">>
    /\ Passed(1) /\ HasTarget(1) /\ TargetName(1) = <<"A">>
    /\ sf_attach = <<1>>
    /\ sf_tracks[2].translation.times = <<0, 3>>

\* a track fit for sampling
Usable(track, width) == Len(track.times) > 0 /\ Len(track.values) >= Len(track.times) * width

\* the track as it looks from the time of the frame whose transforms the state holds
Track(track) == AtTime(track, sf_t)

\* a fallback no node has
Elsewhere3 == Exact(<<-9, -9, -9>>)

Elsewhere4 == [q |-> Exact(<<-9, -9, -9, -9>>), normalized |-> FALSE]

AuthoredOr(authored, width, default) == IF Len(authored) = width THEN Exact(authored) ELSE Exact(default)

\* C20: in every frame the local transform of a node is its authored matrix when it
\* declares one, whatever tracks it has; otherwise it is composed of translation,
\* rotation and scale, each sampled from its track when the track has a key and
\* enough values, and taken from the node's default pose when not.
C20_LocalTransform ==
    (sf_pc \in {"frames", "done"} /\ sf_fi > 0) =>
        \A ni \in 1..Len(sf_in.base.nodes) :
            LET n == sf_in.base.nodes[ni]
                tr == sf_tracks[ni]
                local == sf_local[ni]
            IN  IF Len(n.matrix) = 16
                THEN local.kind = "matrix" /\ local.matrix = n.matrix
                ELSE /\ local.kind = "TRS"
                     /\ IF Usable(tr.translation, 3)
                        THEN [pc |-> "returned", value |-> local.t] \in
                                 SampleTrackVec3(Track(tr.translation), sf_t.n, Elsewhere3)
                        ELSE local.t = AuthoredOr(n.translation, 3, <<0, 0, 0>>)
                     /\ IF Usable(tr.rotation, 4)
                        THEN [pc |-> "returned", value |-> local.r] \in
                                 SampleTrackQuat(Track(tr.rotation), sf_t.n, Elsewhere4)
                        ELSE /\ local.r.q = AuthoredOr(n.rotation, 4, <<0, 0, 0, 1>>)
                             /\ local.r.normalized = (Len(n.rotation) = 4)
                     /\ IF Usable(tr.scale, 3)
                        THEN [pc |-> "returned", value |-> local.s] \in
                                 SampleTrackVec3(Track(tr.scale), sf_t.n, Elsewhere3)
                        ELSE local.s = AuthoredOr(n.scale, 3, <<1, 1, 1>>)

\* half-way between two translation keys, with a rotation track that is a value
\* short and no scale track: sampled translation, default rotation and scale
C20_Witness ==
    /\ sf_pc = "frames" /\ sf_fi = 2
    /\ Len(sf_in.base.nodes) = 1
    /\ sf_in.base.nodes[1].matrix = <<1, 2, 3>>
    /\ sf_in.base.nodes[1].rotation = <<0, 2, 0, 0>>
    /\ Usable(sf_tracks[1].translation, 3)
    /\ sf_tracks[1].rotation.times = <<0, 4>> /\ ~Usable(sf_tracks[1].rotation, 4)
    /\ sf_tracks[1].scale = NoTrack
    /\ sf_local[1].kind = "TRS"
    /\ sf_local[1].t[1].n * 2 = 17 * sf_local[1].t[1].d
    /\ sf_local[1].r = [q |-> Exact(<<0, 2, 0, 0>>), normalized |-> TRUE]
    /\ sf_local[1].s = Exact(<<1, 1, 1>>)

(***************************************************************************)
(* C21: frame_count is max(2, ceil(duration * 30) + 1) when the duration   *)
(* is above 0.0001 seconds and 1 otherwise, never 0 on success, and frame  *)
(* f is sampled at duration * f / (frame_count - 1).                       *)
(***************************************************************************)
\* the count the formula gives for a duration in ticks
FramesByFormula(duration) ==
    IF duration * 10000 > TicksPerSecond
    THEN StdMax(2, Ceil(duration * sample_fps, TicksPerSecond) + 1)
    ELSE 1

\* the bake has fixed its frame count
Counted == sf_pc = "frames" \/ (sf_pc = "done" /\ sf_ret)

\* C21: the frame count of a bake is the one the formula gives for its duration,
\* and the frame last sampled was sampled at duration * f / (frame_count - 1)
C21_FrameCountByFormula ==
    Counted =>
        /\ sf_out.frame_count = FramesByFormula(sf_out.duration)
        /\ sf_out.frame_count >= 1
        /\ sf_fi > 0 /\ sf_out.frame_count > 1 =>
               sf_t.n * (sf_out.frame_count - 1) = sf_out.duration * (sf_fi - 1) * sf_t.d

(***************************************************************************)
(* C22: after a call palettes holds frame_count * joint_count matrices; on *)
(* success joint_count is the joint count of the first skin and            *)
(* frame_count is at least 1; on failure every field is at its default.    *)
(***************************************************************************)
\* the fields of a default-constructed GltfSkinningFrames
AllDefault(frames) ==
    /\ frames.joint_count = 0
    /\ frames.frame_count = 0
    /\ frames.duration = 0
    /\ frames.palettes = <<>>

\* C22: once the bake has returned, the palettes are frame_count * joint_count
\* matrices of 16 floats; a successful bake has the joint count of the first skin
\* and a frame at least, a failed one leaves nothing but defaults
C22_HeaderMatchesPalettes ==
    sf_pc = "done" =>
        /\ Len(sf_out.palettes) = sf_out.frame_count * sf_out.joint_count
        /\ sf_ret => /\ sf_out.joint_count = Len(sf_in.base.skins[1].joints)
                     /\ sf_out.frame_count >= 1
        /\ ~sf_ret => AllDefault(sf_out)

\* a bake that failed for want of an animation
C22_Witness == sf_pc = "done" /\ ~sf_ret /\ sf_err = <<"No animations">>

(***************************************************************************)
(* C23: the palette entry of frame f and joint j, for a joint with a valid *)
(* node index, is global(skin.joints[j]) x inverseBind[j]; inverseBind[j]  *)
(* is the identity when the accessor supplies fewer than j + 1 matrices;   *)
(* entries follow the order of the skin's joints, frame after frame.       *)
(***************************************************************************)
\* the inverse bind matrix of joint j (from 0): matrix j of the accessor when it
\* holds that many, the identity otherwise
BindOf(skin, j) == IF skin.ibm_count >= j + 1 THEN <<"ibm", j>> ELSE <<"identity">>

\* the step bakes frame f
BakesFrame(f) == sf_pc = "frames" /\ sf_fi = f /\ sf_fi' = f + 1

\* C23: the step that bakes frame f writes, at (f * joint_count + j), the product
\* of the global transform of node skin.joints[j] and inverseBind[j] for every
\* joint j with a valid node index, and leaves the entries of other frames alone
C23_PaletteIsGlobalTimesInverseBind ==
    [][ \A f \in 0..U32Mod : BakesFrame(f) =>
          LET skin == sf_in.base.skins[1]
              jc == sf_out.joint_count
          IN  /\ Len(sf_out'.palettes) = Len(sf_out.palettes)
              /\ \A k \in 1..Len(sf_out.palettes) :
                    LET j == (k - 1) % jc
                        node == skin.joints[j + 1]
                    IN  IF (k - 1) \div jc = f
                        THEN node >= 0 /\ node < Len(sf_in.base.nodes) =>
                               sf_out'.palettes[k] = [global |-> sf_global'[node + 1],
                                                      inverse_bind |-> BindOf(skin, j)]
                        ELSE sf_out'.palettes[k] = sf_out.palettes[k] ]_vars

\* a second frame baked for joints <<1, 0>> with one inverse bind matrix supplied,
\* node 1 below node 0
C23_Witness ==
    /\ sf_pc = "frames" /\ sf_fi = 2
    /\ sf_in.base.skins[1] = MkSkin(<<1, 0>>, 1)
    /\ Len(sf_global[2]) = 2
    /\ sf_out.palettes[3] = [global |-> sf_global[2], inverse_bind |-> <<"ibm", 0>>]
    /\ sf_out.palettes[4] = [global |-> sf_global[1], inverse_bind |-> <<"identity">>]

(***************************************************************************)
(* C24: the bake returns false exactly when the base model cannot be       *)
(* decoded, has no skin, its first skin has no joints, a distinct          *)
(* animation source cannot be decoded, or the animation source has no      *)
(* animation; otherwise it returns true.                                   *)
(***************************************************************************)
\* the animation path names a file other than the base model's
DistinctSource ==
    LET hash(p) == { i \in 1..Len(p) : p[i] = "#" }
        base(p) == IF hash(p) = {} THEN p
                   ELSE IF MinOf(hash(p)) = 1 THEN p ELSE SubSeq(p, 1, MinOf(hash(p)) - 1)
    IN  base(sf_in.animation_path) # <<>> /\ base(sf_in.animation_path) # base(sf_in.model_path)

\* one of the five causes of failure holds of the call
ListedFailure ==
    \/ ~sf_in.base.ok
    \/ sf_in.base.skins = <<>>
    \/ sf_in.base.skins[1].joints = <<>>
    \/ DistinctSource /\ ~sf_in.anim.ok
    \/ IF DistinctSource THEN sf_in.anim.animations = <<>> ELSE sf_in.base.animations = <<>>

\* the call is over, by a return or otherwise
Ended == sf_pc \in {"done", "crashed", "overflowed"}

\* C24: a call under one of the five causes returns false, and any other call
\* returns true
C24_FalseExactlyOnListedFailures ==
    Ended => /\ sf_pc = "done"
             /\ sf_ret <=> ~ListedFailure

(***************************************************************************)
(* C25: in a frame over an acyclic hierarchy the global transform of every *)
(* node is assigned exactly once, that of a parent before that of its      *)
(* child, as parent global x local, or local for a root; the parent is a   *)
(* node that lists the node as a child.                                    *)
(***************************************************************************)
\* the nodes (from 0) that list node ni as a child
Listing(ni) ==
    { p \in 0..(Len(sf_in.base.nodes) - 1) :
        \E c \in 1..Len(sf_in.base.nodes[p + 1].children) : sf_in.base.nodes[p + 1].children[c] = ni }

\* the places of node ni in the order of assignment
PlacesOf(ni) == { k \in 1..Len(sf_order) : sf_order[k] = ni }

\* a frame has been baked
FrameBaked == sf_pc \in {"frames", "done"} /\ sf_fi > 0

\* C25: in a baked frame every node has one place in the order of assignment; a
\* node nobody lists has its local transform for global; any other has the product
\* of the global of a node listing it, assigned earlier, and its local transform
C25_ParentBeforeChild ==
    FrameBaked =>
        \A ni \in 0..(Len(sf_in.base.nodes) - 1) :
           /\ Cardinality(PlacesOf(ni)) = 1
           /\ IF Listing(ni) = {}
              THEN sf_global[ni + 1] = <<sf_local[ni + 1]>>
              ELSE \E p \in Listing(ni) :
                      /\ \A kp \in PlacesOf(p), kn \in PlacesOf(ni) : kp < kn
                      /\ sf_global[ni + 1] = sf_global[p + 1] \o <<sf_local[ni + 1]>>

\* a frame over the chain 2 -> 1 -> 0, where node 0 is the deepest: the globals are
\* assigned root first
C25_Witness ==
    /\ FrameBaked
    /\ Listing(0) = {1} /\ Listing(1) = {2} /\ Listing(2) = {}
    /\ sf_order = <<2, 1, 0>>
    /\ Len(sf_global[1]) = 3

(***************************************************************************)
(* C28: the traversal that computes the global transforms of a frame       *)
(* terminates for any child lists, a self-child and cycles included:       *)
(* compute_global returns for every node and the bake completes.           *)
(***************************************************************************)
\* C28: no bake ends with compute_global still calling itself when the stack is full
C28_TraversalTerminates == sf_pc # "overflowed"

(***************************************************************************)
(* C26: the animation cache is not safe for concurrent callers: with two   *)
(* threads asking for the same uncached base path there is an interleaving *)
(* in which both observe a miss, both decode the file and both write the   *)
(* cache entry.                                                            *)
(***************************************************************************)
\* the cache key of caller c: the path up to its first '#', the whole path when
\* that is empty
KeyOf(c) == IF BeforeHash(al_path[c]) = <<>> THEN al_path[c] ELSE BeforeHash(al_path[c])

\* the cache holds a result for the key
Stored(key) == key \in DOMAIN g_animation_cache /\ g_animation_cache[key].loaded

\* caller c completes the lookup in this step
Looks(c) == al_pc[c] = "lookup" /\ al_pc'[c] \in {"decode", "done"}

\* caller c returns from the decode in this step
Decodes(c) == al_pc[c] = "decode" /\ al_pc'[c] = "done"

\* C26: nothing but a stored result keeps a caller from decoding: a lookup goes on
\* to decode the file exactly when the cache holds no result for the key, whatever
\* the other caller is doing, and every caller that decodes writes its own result
\* to the entry of the key
C26_MissDecodesAndWrites ==
    [][ \A c \in Callers :
          /\ Looks(c) => (al_pc'[c] = "decode" <=> ~Stored(KeyOf(c)))
          /\ Decodes(c) =>
                /\ KeyOf(c) \in DOMAIN g_animation_cache'
                /\ g_animation_cache'[KeyOf(c)] =
                       [library |-> IF al_ret'[c] THEN al_out'[c] ELSE <<>>,
                        error |-> al_err'[c], loaded |-> TRUE] ]_vars

\* both callers asked for the same base path under different paths, both missed,
\* both read the file and both have written the entry
C26_Witness ==
    /\ al_pc[1] = "done" /\ al_pc[2] = "done"
    /\ al_path[1] = <<"p", "#", "a">> /\ al_path[2] = <<"p">>
    /\ al_read[1] /\ al_read[2]
    /\ al_ret[1] /\ al_ret[2]

(***************************************************************************)
(* C27: in push_vertex every read of positions, normals, uvs, colors,      *)
(* joints and weights is at an index below the length of the array, for    *)
(* every index value and every combination of attribute counts.            *)
(***************************************************************************)
\* the vertices push_vertex is called with for the primitive: the index buffer
\* when the primitive has one, else 0 .. vertex count - 1
PushedIndices(prim) ==
    IF prim.has_indices THEN { prim.indices[i] : i \in 1..Len(prim.indices) }
    ELSE 0..(Len(prim.positions) - 1)

\* the arrays push_vertex reads for the primitive, each as a sequence of vertices
ArraysRead(prim) ==
    {prim.positions}
    \cup (IF prim.normals # <<>> THEN {prim.normals} ELSE {})
    \cup (IF prim.uvs # <<>> THEN {prim.uvs} ELSE {})
    \cup (IF prim.colors # <<>> THEN {prim.colors} ELSE {})
    \cup (IF prim.joints # <<>> /\ prim.weights # <<>> THEN {prim.joints, prim.weights} ELSE {})

\* the loader stands before a primitive whose vertices it is going to push
Pushing == lg_pc = "primitive" /\ CurrentPrimitive.has_position /\ CurrentPrimitive.position_ok

\* C27: every vertex pushed for a primitive lies inside every array read for it
C27_ReadsInsideArrays ==
    Pushing => \A idx \in PushedIndices(CurrentPrimitive), arr \in ArraysRead(CurrentPrimitive) :
                  idx < Len(arr)

(***************************************************************************)
(* C29: in SampleTrackVec3 and SampleTrackQuat, for every track of two or  *)
(* more keys, any sequence of key times and any t strictly between the     *)
(* first and the last key time, the bracket search stops at a k with       *)
(* k + 1 < count.                                                          *)
(***************************************************************************)
\* the call sampled a track of two or more keys with a full value array at a time
\* strictly between its first and its last key time
SampledInside ==
    LET times == fn_call.track.times
        width == IF fn_call.name = "SampleTrackQuat" THEN 4 ELSE 3
    IN  /\ fn_call.name \in {"SampleTrackVec3", "SampleTrackQuat"}
        /\ fn_pc # "ready"
        /\ Len(times) >= 2
        /\ Len(fn_call.track.values) >= Len(times) * width
        /\ times[1] >= 0 /\ times[Len(times)] >= 0
        /\ times[1] < fn_call.t /\ fn_call.t < times[Len(times)]

\* C29: the search of such a call stops at a k that has a key behind it
C29_BracketInsideTrack ==
    SampledInside => BracketLoop(fn_call.track.times, fn_call.t, 0) + 1 < Len(fn_call.track.times)

(***************************************************************************)
(* C30: the mesh cache on disk is a faithful memoization of LoadGltfMesh:  *)
(* SaveMeshCache followed by LoadMeshCache for the same model path yields  *)
(* a GltfMesh equal to the saved one in positions, normals, uvs, colors,   *)
(* joints, weights, has_uv and base_color_texture_path.                    *)
(***************************************************************************)
\* the mesh was saved to a cache that is enabled and writable, and read back
RoundTrip == fn_call.name = "MeshCache" /\ fn_pc = "loaded" /\ fn_call.enabled /\ fn_call.writable

\* C30: the mesh read back from the cache is the mesh that was saved
C30_CacheRoundTrip ==
    RoundTrip => /\ fn_out.ret
                 /\ fn_out.mesh = fn_call.mesh


=============================================================================
